---- MODULE Spec2Model ----
(***************************************************************************)
(* Layered configuration resolution of dioad/cli: InitConfig,              *)
(* InitViperConfigWithFlagSet and the Cobra run-function adapters, over    *)
(* the process-wide Viper store, the environment, the filesystem and the   *)
(* global logger.  Strings are sequences of one-character strings so that  *)
(* joins, upper-casing and replacement are computed as the code computes   *)
(* them.                                                                   *)
(***************************************************************************)
EXTENDS Integers, Sequences, FiniteSets, TLC

VARIABLES
    fs,        \* filesystem: path -> Absent | Unreadable | file contents (key -> value)
    env,       \* process environment: variable name -> value | None
    homeOK,    \* whether the home directory lookup (homedir.Dir) succeeds
    v,         \* the process-wide Viper store
    watches,   \* config files watched by a background viper.WatchConfig goroutine
    logger,    \* the global zerolog logger: level and number of configurations
    exited,    \* TRUE once cobra.CheckErr has called os.Exit(1)
    inv        \* per invocation: position and locals of the running entry point

vars == <<fs, env, homeOK, v, watches, logger, exited, inv>>

(***************************************************************************)
(* Strings                                                                 *)
(***************************************************************************)
None == <<"<none>">>
Empty == << >>

S_o == <<"o">>
S_app == <<"a", "p", "p">>
S_a_b == <<"a", " ", "b">>
S_serve == <<"s", "e", "r", "v", "e">>
S_etc == <<"/", "e", "t", "c">>
S_home == <<"/", "h">>
S_dotconfig == <<".", "c", "o", "n", "f", "i", "g">>
S_slashconfig == <<"/", "c", "o", "n", "f", "i", "g">>
S_yaml == <<"y", "a", "m", "l">>
S_cyaml == <<"c", ".", "y", "a", "m", "l">>
S_cwd == <<"/", "w">>
S_dollarHome == <<"$", "H", "O", "M", "E">>

K_port == <<"p", "o", "r", "t">>
K_level == <<"l", "o", "g", ".", "l", "e", "v", "e", "l">>
K_maxsize == <<"l", "o", "g", ".", "m", "a", "x", "-", "s", "i", "z", "e">>
K_config == <<"c", "o", "n", "f", "i", "g">>

V_80 == <<"8", "0">>
V_8080 == <<"8", "0", "8", "0">>
V_81 == <<"8", "1">>
V_82 == <<"8", "2">>
V_7 == <<"7">>
V_9 == <<"9">>
V_x == <<"x">>
V_debug == <<"d", "e", "b", "u", "g">>
V_info == <<"i", "n", "f", "o">>
V_warn == <<"w", "a", "r", "n">>

\* strings.Join(parts, sep)
RECURSIVE Join(_, _)
Join(parts, sep) ==
    IF Len(parts) = 0 THEN Empty
    ELSE IF Len(parts) = 1 THEN parts[1]
    ELSE parts[1] \o sep \o Join(Tail(parts), sep)

\* filepath.Join: non-empty elements separated by the path separator
PathJoin(parts) == Join(SelectSeq(parts, LAMBDA s : s # Empty), <<"/">>)

HasPrefix(s, p) == Len(s) >= Len(p) /\ SubSeq(s, 1, Len(p)) = p

LowerLetters == <<"a", "b", "c", "d", "e", "f", "g", "h", "i", "j", "k", "l", "m",
                  "n", "o", "p", "q", "r", "s", "t", "u", "v", "w", "x", "y", "z">>
UpperLetters == <<"A", "B", "C", "D", "E", "F", "G", "H", "I", "J", "K", "L", "M",
                  "N", "O", "P", "Q", "R", "S", "T", "U", "V", "W", "X", "Y", "Z">>

UpperChar(c) ==
    IF \E i \in 1..26 : LowerLetters[i] = c
    THEN UpperLetters[CHOOSE i \in 1..26 : LowerLetters[i] = c]
    ELSE c

LowerChar(c) ==
    IF \E i \in 1..26 : UpperLetters[i] = c
    THEN LowerLetters[CHOOSE i \in 1..26 : UpperLetters[i] = c]
    ELSE c

\* strings.ToUpper / strings.ToLower
ToUpper(s) == [i \in 1..Len(s) |-> UpperChar(s[i])]
ToLower(s) == [i \in 1..Len(s) |-> LowerChar(s[i])]

\* strings.NewReplacer over single characters: r is a sequence of <<old, new>> pairs,
\* the first matching pair wins
ReplaceChar(r, c) ==
    IF \E i \in 1..Len(r) : r[i][1] = c
    THEN r[CHOOSE i \in 1..Len(r) : r[i][1] = c /\ \A j \in 1..(i - 1) : r[j][1] # c][2]
    ELSE c

Replace(r, s) == [i \in 1..Len(s) |-> ReplaceChar(r, s[i])]

Digits == <<"0", "1", "2", "3", "4", "5", "6", "7", "8", "9">>
IsDigit(c) == \E i \in 1..10 : Digits[i] = c
DigitVal(c) == (CHOOSE i \in 1..10 : Digits[i] = c) - 1

RECURSIVE DecVal(_)
DecVal(s) == IF Len(s) = 0 THEN 0 ELSE 10 * DecVal(SubSeq(s, 1, Len(s) - 1)) + DigitVal(s[Len(s)])

(***************************************************************************)
(* Errors are chains of messages (fmt.Errorf with %w wraps); Nil is no     *)
(* error.                                                                  *)
(***************************************************************************)
Nil == << >>
Wrap(msg, err) == <<msg>> \o err

(***************************************************************************)
(* Name validation                                                         *)
(***************************************************************************)
Contains(s, c) == \E i \in 1..Len(s) : s[i] = c

\* unicode.IsSpace for the characters of the model's alphabet
IsSpace(c) == c \in {" ", "\t", "\n", "\r", "\f"}

\* strings.TrimSpace(name) == ""
TrimSpaceIsEmpty(name) == \A i \in 1..Len(name) : IsSpace(name[i])

\* the backtick character (a string literal cannot hold it)
Backtick == "backtick"

specialChars == <<"/", "\\", ":", "*", "?", "\"", "<", ">", "|", "(", ")", "{", "}",
                  "[", "]", "!", "@", "#", "$", "%", "^", "&", "*", "+", "=", "~", Backtick>>

\* ValidateName that also takes the dash for a special character
ValidateName_NoDash(name) ==
    IF TrimSpaceIsEmpty(name) THEN <<"name must not be empty">>
    ELSE IF Contains(name, "/") THEN <<"name must not contain path separators">>
    ELSE IF name = <<".">> \/ name = <<".", ".">> THEN <<"name must not be . or ..">>
    ELSE IF name[1] = " " THEN <<"name must not start with a space">>
    ELSE IF name[Len(name)] = " " THEN <<"name must not end with a space">>
    ELSE IF Contains(name, " ") THEN <<"name must not contain spaces">>
    ELSE IF Contains(name, "-") \/ \E i \in 1..Len(specialChars) : Contains(name, specialChars[i])
         THEN <<"name must not contain special characters">>
    ELSE Nil

ValidateName(name) ==
    IF TrimSpaceIsEmpty(name) THEN <<"name must not be empty">>
    ELSE IF Contains(name, "/") THEN <<"name must not contain path separators">>
    ELSE IF name = <<".">> \/ name = <<".", ".">> THEN <<"name must not be . or ..">>
    ELSE IF name[1] = " " THEN <<"name must not start with a space">>
    ELSE IF name[Len(name)] = " " THEN <<"name must not end with a space">>
    ELSE IF Contains(name, " ") THEN <<"name must not contain spaces">>
    ELSE IF \E i \in 1..Len(specialChars) : Contains(name, specialChars[i])
         THEN <<"name must not contain special characters">>
    ELSE Nil

\* ValidateOrgAndAppName that validates the app name first
ValidateOrgAndAppName_AppFirst(orgName, appName) ==
    IF ValidateName(appName) # Nil THEN Wrap("invalid appName", ValidateName(appName))
    ELSE IF ValidateName(orgName) # Nil THEN Wrap("invalid orgName", ValidateName(orgName))
    ELSE Nil

ValidateOrgAndAppName(orgName, appName) ==
    IF ValidateName(orgName) # Nil THEN Wrap("invalid orgName", ValidateName(orgName))
    ELSE IF ValidateName(appName) # Nil THEN Wrap("invalid appName", ValidateName(appName))
    ELSE Nil

(***************************************************************************)
(* Context metadata: a context is the chain of WithValue entries, oldest   *)
(* first; context.Background() is the empty chain.                         *)
(***************************************************************************)
SetOrgName(orgName) == [k |-> "orgName", val |-> orgName]
SetAppName(appName) == [k |-> "appName", val |-> appName]

\* a nil context.Context: a chain no WithValue can build
NilCtx == <<[k |-> "nil", val |-> Empty]>>

\* Context that applies the transforms from the last to the first
Context_Reversed(ctx, contextOpts) ==
    (IF ctx = NilCtx THEN << >> ELSE ctx)
        \o [i \in 1..Len(contextOpts) |-> contextOpts[Len(contextOpts) + 1 - i]]

\* a nil parent is replaced by context.Background(), the empty chain; each
\* transform adds its entry
Context(ctx, contextOpts) == (IF ctx = NilCtx THEN << >> ELSE ctx) \o contextOpts

CtxValue(ctx, key) ==
    IF \E i \in 1..Len(ctx) : ctx[i].k = key
    THEN ctx[CHOOSE i \in 1..Len(ctx) : ctx[i].k = key /\ \A j \in (i + 1)..Len(ctx) : ctx[j].k # key].val
    ELSE Empty

OrgNameFromContext(ctx) == CtxValue(ctx, "orgName")
AppNameFromContext(ctx) == CtxValue(ctx, "appName")

(***************************************************************************)
(* Commands: a command is the chain of Use strings from the root of its     *)
(* tree down to itself, so that its parent is the chain without its last    *)
(* element; the root command `app` has the subcommand `serve`               *)
(***************************************************************************)
NoCmd == << >>
RootCmd == <<S_app>>
ServeCmd == <<S_app, S_serve>>
Cmds == {RootCmd, ServeCmd}
Parent(cmd) == SubSeq(cmd, 1, Len(cmd) - 1)
Use(cmd) == cmd[Len(cmd)]

RECURSIVE commandParts(_)
commandParts(cmd) ==
    (IF Parent(cmd) # NoCmd THEN commandParts(Parent(cmd)) ELSE << >>) \o <<Use(cmd)>>

\* fmt.Sprintf("%v\n", strings.Join(commandParts(cmd), "-"))
fullCommandName(cmd) == Join(commandParts(cmd), <<"-">>) \o <<"\n">>

(***************************************************************************)
(* Flags of a command (pflag.FlagSet): flag name -> flag                   *)
(***************************************************************************)
FlagKeys == {K_port, K_config}
NoFlag == [defined |-> FALSE, def |-> None, val |-> None, changed |-> FALSE, shorthand |-> Empty]
MkFlag(def, val, changed) ==
    [defined |-> TRUE, def |-> def, val |-> val, changed |-> changed, shorthand |-> Empty]

(***************************************************************************)
(* Filesystem                                                              *)
(***************************************************************************)
ConfigKeys == {K_port, K_level, K_maxsize}
NoData == [k \in ConfigKeys |-> None]
Absent == [state |-> "absent", data |-> NoData]
Unreadable == [state |-> "unreadable", data |-> NoData]
Malformed == [state |-> "malformed", data |-> NoData]
File(data) == [state |-> "ok", data |-> data]

FileAt(f, path) == IF path \in DOMAIN f THEN f[path] ELSE Absent
Exists(f, path) == FileAt(f, path).state # "absent"

(***************************************************************************)
(* The Viper store (the package-level singleton) and the operations the   *)
(* code calls on it                                                        *)
(***************************************************************************)
NoFlags == [k \in FlagKeys |-> NoFlag]

ViperNew ==
    [envPrefix |-> Empty, envKeyReplacer |-> << >>, automaticEnv |-> FALSE,
     pflags |-> NoFlags, configFile |-> Empty, configName |-> K_config,
     configType |-> Empty, configPaths |-> << >>, config |-> NoData]

SetEnvPrefix(s, in) == IF in # Empty THEN [s EXCEPT !.envPrefix = in] ELSE s
SetEnvKeyReplacer(s, r) == [s EXCEPT !.envKeyReplacer = r]
AutomaticEnv(s) == [s EXCEPT !.automaticEnv = TRUE]

\* every flag of the set is bound under its lower-cased name; binding cannot fail
\* for a non-nil flag
BindPFlags(s, flags) ==
    [s EXCEPT !.pflags = [k \in FlagKeys |-> IF flags[k].defined THEN flags[k] ELSE s.pflags[k]]]
BindPFlagsErr(flags) == Nil

SetConfigFile(s, in) == IF in # Empty THEN [s EXCEPT !.configFile = in] ELSE s
SetConfigName(s, in) == IF in # Empty THEN [s EXCEPT !.configName = in, !.configFile = Empty] ELSE s
SetConfigType(s, in) == IF in # Empty THEN [s EXCEPT !.configType = in] ELSE s

\* absPathify: $HOME is expanded and a relative path is made absolute
AbsPathify(in, home) ==
    IF HasPrefix(in, S_dollarHome)
    THEN (IF home THEN S_home ELSE Empty) \o SubSeq(in, Len(S_dollarHome) + 1, Len(in))
    ELSE IF in = <<".">> THEN S_cwd
    ELSE in

InSeq(q, x) == \E i \in 1..Len(q) : q[i] = x

AddConfigPath(s, in, home) ==
    IF in # Empty /\ ~InSeq(s.configPaths, AbsPathify(in, home))
    THEN [s EXCEPT !.configPaths = Append(@, AbsPathify(in, home))]
    ELSE s

\* the extensions Viper supports, restricted to those of the model's filesystem
SupportedExts == <<S_yaml>>

searchInPath(s, f, in) ==
    IF \E i \in 1..Len(SupportedExts) : Exists(f, PathJoin(<<in, s.configName \o <<".">> \o SupportedExts[i]>>))
    THEN LET i == CHOOSE i \in 1..Len(SupportedExts) :
                    /\ Exists(f, PathJoin(<<in, s.configName \o <<".">> \o SupportedExts[i]>>))
                    /\ \A j \in 1..(i - 1) : ~Exists(f, PathJoin(<<in, s.configName \o <<".">> \o SupportedExts[j]>>))
         IN PathJoin(<<in, s.configName \o <<".">> \o SupportedExts[i]>>)
    ELSE IF s.configType # Empty /\ Exists(f, PathJoin(<<in, s.configName>>))
    THEN PathJoin(<<in, s.configName>>)
    ELSE Empty

\* the file of the first search path that holds one, Empty if none does
findConfigFile(s, f) ==
    IF \E i \in 1..Len(s.configPaths) : searchInPath(s, f, s.configPaths[i]) # Empty
    THEN searchInPath(s, f, s.configPaths[CHOOSE i \in 1..Len(s.configPaths) :
                /\ searchInPath(s, f, s.configPaths[i]) # Empty
                /\ \A j \in 1..(i - 1) : searchInPath(s, f, s.configPaths[j]) = Empty])
    ELSE Empty

\* file extension without the dot, Empty if the name has none
Ext(path) ==
    IF Contains(path, ".")
    THEN SubSeq(path, (CHOOSE i \in 1..Len(path) : path[i] = "." /\ \A j \in (i + 1)..Len(path) : path[j] # ".") + 1, Len(path))
    ELSE Empty

getConfigType(s) == IF s.configType # Empty THEN s.configType ELSE Ext(s.configFile)

\* viper.ReadInConfig(): the store after the call and the error it returns
ReadInConfig(s, f) ==
    LET found == IF s.configFile = Empty THEN findConfigFile(s, f) ELSE s.configFile
        s1 == [s EXCEPT !.configFile = found]
    IN  IF found = Empty THEN [s |-> s, err |-> <<"ConfigFileNotFoundError">>]
        ELSE IF ~InSeq(SupportedExts, getConfigType(s1)) THEN [s |-> s1, err |-> <<"UnsupportedConfigError">>]
        ELSE IF FileAt(f, found).state = "absent" THEN [s |-> s1, err |-> <<"PathError: no such file or directory">>]
        ELSE IF FileAt(f, found).state = "unreadable" THEN [s |-> s1, err |-> <<"PathError: permission denied">>]
        ELSE IF FileAt(f, found).state = "malformed" THEN [s |-> s1, err |-> <<"ConfigParseError">>]
        ELSE [s |-> [s1 EXCEPT !.config = FileAt(f, found).data], err |-> Nil]

\* errors.As(err, &viper.ConfigFileNotFoundError{})
IsConfigFileNotFound(err) == err # Nil /\ err[Len(err)] = "ConfigFileNotFoundError"

(***************************************************************************)
(* Reading the store: viper.Get / AllKeys / AllSettings / Unmarshal        *)
(***************************************************************************)
AllKeysU == FlagKeys \cup ConfigKeys

\* mergeWithEnvPrefix, then the key replacer: the name of the environment variable of a key
EnvVarName(s, key) ==
    Replace(s.envKeyReplacer,
            ToUpper(IF s.envPrefix # Empty THEN s.envPrefix \o <<"_">> \o key ELSE key))

\* getEnv: an unset or empty variable has no value (AllowEmptyEnv is off)
getEnv(s, e, key) ==
    IF EnvVarName(s, key) \in DOMAIN e /\ e[EnvVarName(s, key)] # Empty
    THEN e[EnvVarName(s, key)]
    ELSE None

\* the keys above a nested key: log for log.level
ParentKeys(key) == {SubSeq(key, 1, i - 1) : i \in {j \in 1..Len(key) : key[j] = "."}}

isPathShadowedInAutoEnv(s, e, key) == \E pk \in ParentKeys(key) : getEnv(s, e, pk) # None

\* viper.find(key, flagDefault = TRUE): changed flag, environment, config file, flag default
find(s, e, key) ==
    IF key \in FlagKeys /\ s.pflags[key].defined /\ s.pflags[key].changed THEN s.pflags[key].val
    ELSE IF s.automaticEnv /\ getEnv(s, e, key) # None THEN getEnv(s, e, key)
    ELSE IF s.automaticEnv /\ isPathShadowedInAutoEnv(s, e, key) THEN None
    ELSE IF key \in ConfigKeys /\ s.config[key] # None THEN s.config[key]
    ELSE IF key \in FlagKeys /\ s.pflags[key].defined THEN s.pflags[key].val
    ELSE None

\* the keys the store knows: bound flags and keys of the loaded config file
\* (a variable of the environment alone does not make its key known)
AllKeys(s) ==
    {k \in FlagKeys : s.pflags[k].defined} \cup {k \in ConfigKeys : s.config[k] # None}

AllSettings(s, e) == [k \in AllKeysU |-> IF k \in AllKeys(s) THEN find(s, e, k) ELSE None]

\* cast.ToString(viper.Get(key))
GetString(s, e, key) == IF find(s, e, key) = None THEN Empty ELSE find(s, e, key)

\* mapstructure weak decoding of a string into an int field
IsNumber(val) == Len(val) > 0 /\ \A i \in 1..Len(val) : IsDigit(val[i])
WeakIntOk(val) == val = Empty \/ IsNumber(val)
WeakInt(val) == IF val = Empty THEN 0 ELSE DecVal(val)

\* logging.Config (the fields the model's keys reach) inside CommonConfig
ZeroCommonConfig == [Level |-> Empty, MaxSize |-> 0]

\* viper.Unmarshal(&c) for c of type CommonConfig
UnmarshalCommon(s, e, c) ==
    LET m == AllSettings(s, e)
        c1 == IF m[K_level] # None THEN [c EXCEPT !.Level = m[K_level]] ELSE c
        c2 == IF m[K_maxsize] # None /\ WeakIntOk(m[K_maxsize])
              THEN [c1 EXCEPT !.MaxSize = WeakInt(m[K_maxsize])] ELSE c1
    IN  [val |-> c2,
         err |-> IF m[K_maxsize] # None /\ ~WeakIntOk(m[K_maxsize])
                 THEN <<"cannot parse 'log.max-size' as int">> ELSE Nil]

\* UnmarshalConfig that zeroes the field of a key without a value
UnmarshalConfig_ZeroUnset(s, e, cfg) ==
    LET m == AllSettings(s, e)
    IN  [val |-> IF m[K_port] = None THEN [cfg EXCEPT !.Port = 0]
                 ELSE IF WeakIntOk(m[K_port]) THEN [cfg EXCEPT !.Port = WeakInt(m[K_port])] ELSE cfg,
         err |-> IF m[K_port] # None /\ ~WeakIntOk(m[K_port])
                 THEN <<"cannot parse 'port' as int">> ELSE Nil]

\* UnmarshalConfig(cfg) for the caller's struct { Port int `mapstructure:"port"` }
UnmarshalConfig(s, e, cfg) ==
    LET m == AllSettings(s, e)
    IN  [val |-> IF m[K_port] # None /\ WeakIntOk(m[K_port])
                 THEN [cfg EXCEPT !.Port = WeakInt(m[K_port])] ELSE cfg,
         err |-> IF m[K_port] # None /\ ~WeakIntOk(m[K_port])
                 THEN <<"cannot parse 'port' as int">> ELSE Nil]

(***************************************************************************)
(* Logging                                                                 *)
(***************************************************************************)
WarnLevel == 2
DefaultLogLevel == WarnLevel

LevelNames == <<<<"d", "e", "b", "u", "g">>, <<"i", "n", "f", "o">>, <<"w", "a", "r", "n">>,
                <<"e", "r", "r", "o", "r">>, <<"f", "a", "t", "a", "l">>, <<"p", "a", "n", "i", "c">>,
                Empty, <<"d", "i", "s", "a", "b", "l", "e", "d">>>>
TraceName == <<"t", "r", "a", "c", "e">>

\* zerolog.ParseLevel: a level name in any letter case, or a number
ParseLevelOk(levelStr) ==
    \/ ToLower(levelStr) = TraceName
    \/ \E i \in 1..Len(LevelNames) : ToLower(levelStr) = LevelNames[i]
    \/ IsNumber(levelStr) /\ DecVal(levelStr) <= 127

ParseLevel(levelStr) ==
    IF ToLower(levelStr) = TraceName THEN 0 - 1
    ELSE IF \E i \in 1..Len(LevelNames) : ToLower(levelStr) = LevelNames[i]
    THEN (CHOOSE i \in 1..Len(LevelNames) : ToLower(levelStr) = LevelNames[i]) - 1
    ELSE DecVal(levelStr)

ConfigureLogLevel(levelString, defaultLogLevel) ==
    IF levelString = Empty THEN defaultLogLevel
    ELSE IF ~ParseLevelOk(levelString) THEN defaultLogLevel
    ELSE ParseLevel(levelString)

\* the global logger before any configuration: zerolog's global level is debug
ZeroLogger == [level |-> 0, calls |-> 0]

\* ConfigureCmdLogger(c) without options: the global logger after the call
ConfigureCmdLogger(lg, c) ==
    [level |-> ConfigureLogLevel(c.Level, DefaultLogLevel), calls |-> lg.calls + 1]

(***************************************************************************)
(* Inputs: the filesystems, environments, contexts and flag sets a run     *)
(* draws from                                                              *)
(***************************************************************************)
S_app_serve == <<"a", "p", "p", "-", "s", "e", "r", "v", "e">>
S_dotyaml == <<".", "y", "a", "m", "l">>

SysDir == S_etc \o <<"/">> \o S_o \o <<"/">> \o S_app
UserDir == S_home \o <<"/">> \o S_dotconfig \o <<"/">> \o S_o \o <<"/">> \o S_app

P_sys == SysDir \o <<"/">> \o S_app_serve \o S_dotyaml
P_sysNL == SysDir \o <<"/">> \o S_app_serve \o <<"\n">> \o S_dotyaml
P_userNL == UserDir \o <<"/">> \o S_app_serve \o <<"\n">> \o S_dotyaml
P_app == SysDir \o <<"/">> \o S_app \o S_dotyaml
P_explicit == S_cyaml

FsPaths == {P_sys, P_sysNL, P_userNL, P_app, P_explicit}

Data(port, level, maxsize) ==
    [k \in ConfigKeys |-> IF k = K_port THEN port ELSE IF k = K_level THEN level ELSE maxsize]

FsWith(files) ==
    [q \in FsPaths |-> IF \E x \in files : x[1] = q THEN (CHOOSE x \in files : x[1] = q)[2] ELSE Absent]

FsInit ==
    { FsWith({}),
      FsWith({<<P_explicit, File(Data(V_80, V_debug, None))>>}),
      FsWith({<<P_explicit, File(Data(None, V_info, None))>>}),
      FsWith({<<P_explicit, File(Data(V_80, None, V_x))>>}),
      FsWith({<<P_explicit, Malformed>>}),
      FsWith({<<P_explicit, Unreadable>>}),
      FsWith({<<P_sys, File(Data(V_81, V_debug, None))>>}),
      FsWith({<<P_sysNL, File(Data(V_81, V_debug, None))>>, <<P_userNL, File(Data(V_82, V_info, None))>>}),
      FsWith({<<P_userNL, File(Data(V_82, V_info, None))>>}),
      FsWith({<<P_app, File(Data(V_81, None, None))>>, <<P_explicit, File(Data(V_80, V_debug, None))>>}) }

E_PORT == <<"A", "P", "P", "_", "P", "O", "R", "T">>
E_LOG_LEVEL == <<"A", "P", "P", "_", "L", "O", "G", "_", "L", "E", "V", "E", "L">>
E_LOG_MAX_SIZE == <<"A", "P", "P", "_", "L", "O", "G", "_", "M", "A", "X", "_", "S", "I", "Z", "E">>

EnvNames == {E_PORT, E_LOG_LEVEL, E_LOG_MAX_SIZE}

EnvWith(port, level, maxsize) ==
    [n \in EnvNames |-> IF n = E_PORT THEN port ELSE IF n = E_LOG_LEVEL THEN level ELSE maxsize]

\* an unset variable is the empty string here: getEnv does not tell them apart
EnvInit == { EnvWith(Empty, Empty, Empty), EnvWith(V_7, V_warn, Empty) }

Contexts ==
    { Context(Empty, << >>),
      Context(Empty, <<SetOrgName(S_o), SetAppName(S_app)>>),
      Context(Empty, <<SetOrgName(S_o), SetAppName(S_a_b)>>) }

\* no port flag; a port flag left at its default (the default of the struct, as
\* NewCommand derives it, or another one); a port flag set on the command line
PortFlags == {NoFlag, MkFlag(V_8080, V_8080, FALSE), MkFlag(V_80, V_80, FALSE),
              MkFlag(V_8080, V_9, TRUE), MkFlag(V_8080, V_x, TRUE)}
ConfigFlags == {NoFlag, MkFlag(Empty, Empty, FALSE), MkFlag(S_cyaml, S_cyaml, FALSE),
                MkFlag(Empty, S_cyaml, TRUE)}

FlagSets == {[k \in FlagKeys |-> IF k = K_port THEN pf ELSE cf] : pf \in PortFlags, cf \in ConfigFlags}

\* the caller's struct and its default value
ZeroCfg == [Port |-> 0]
DefaultCfg == [Port |-> 8080]

Procs == {1, 2}

IdleInv ==
    [pc |-> "idle", kind |-> "none", ctx |-> Empty, cmd |-> RootCmd, flags |-> NoFlags,
     orgName |-> Empty, appName |-> Empty, cfgFile |-> Empty,
     cfg |-> ZeroCfg, cfg0 |-> ZeroCfg, c |-> ZeroCommonConfig, retNil |-> TRUE,
     err |-> Nil, readErr |-> Nil, handlerCalls |-> 0, handlerCfg |-> ZeroCfg,
     result |-> Nil, trace |-> << >>,
     pre |-> [v |-> ViperNew, watches |-> {}, logger |-> ZeroLogger]]

Init ==
    /\ fs \in FsInit
    /\ env \in EnvInit
    /\ homeOK \in BOOLEAN
    /\ v = ViperNew
    /\ watches = {}
    /\ logger = ZeroLogger
    /\ exited = FALSE
    /\ inv = [p \in Procs |-> IdleInv]

(***************************************************************************)
(* The run functions built by CobraRunEWithConfig and CobraRunE           *)
(***************************************************************************)
Snapshot == [v |-> v, watches |-> watches, logger |-> logger]

Enter(p, kind, ctx, cmd, flags, cfgFile) ==
    inv' = [inv EXCEPT ![p] = [IdleInv EXCEPT
                !.pc = "validate", !.kind = kind, !.ctx = ctx, !.cmd = cmd, !.flags = flags,
                !.orgName = OrgNameFromContext(ctx), !.appName = AppNameFromContext(ctx),
                !.cfgFile = cfgFile, !.cfg = DefaultCfg, !.cfg0 = DefaultCfg, !.pre = Snapshot]]

\* the run function of CobraRunEWithConfig up to its call of InitConfig
CobraRunEWithConfig(p) ==
    /\ ~exited
    /\ inv[p].pc = "idle"
    /\ \E ctx \in Contexts, cmd \in Cmds, flags \in FlagSets :
          Enter(p, "CobraRunEWithConfig", ctx, cmd, flags,
                IF flags[K_config].defined THEN flags[K_config].val ELSE Empty)
    /\ UNCHANGED <<fs, env, homeOK, v, watches, logger, exited>>

\* the run function of CobraRunE up to its call of InitConfig
CobraRunE(p) ==
    /\ ~exited
    /\ inv[p].pc = "idle"
    /\ \E ctx \in Contexts, cmd \in Cmds, flags \in FlagSets :
          Enter(p, "CobraRunE", ctx, cmd, flags, Empty)
    /\ UNCHANGED <<fs, env, homeOK, v, watches, logger, exited>>

(***************************************************************************)
(* InitConfig, statement by statement                                      *)
(***************************************************************************)
At(p, pc) == ~exited /\ inv[p].pc = pc
Did(p, step) == Append(inv[p].trace, step)

\* return (c, err) to the caller
Return(p, retNil, err, step) ==
    [inv[p] EXCEPT !.pc = "returned", !.retNil = retNil, !.err = err, !.trace = Did(p, step)]

\* InitConfig_Validate that goes on whatever the validation says
InitConfig_Validate_Ignored(p) ==
    /\ At(p, "validate")
    /\ inv' = [inv EXCEPT ![p].pc = "setenv", ![p].trace = Did(p, "validate")]
    /\ UNCHANGED <<fs, env, homeOK, v, watches, logger, exited>>

InitConfig_Validate(p) ==
    /\ At(p, "validate")
    /\ LET err == ValidateOrgAndAppName(inv[p].orgName, inv[p].appName)
       IN  inv' = [inv EXCEPT ![p] =
                     IF err # Nil
                     THEN Return(p, TRUE, Wrap("error validating org and app name", err), "validate")
                     ELSE [inv[p] EXCEPT !.pc = "setenv", !.trace = Did(p, "validate")]]
    /\ UNCHANGED <<fs, env, homeOK, v, watches, logger, exited>>

\* InitConfig_SetEnv under a mutex that an invocation holds from its first access to
\* the store until it returns
InitConfig_SetEnv_Locked(p) ==
    /\ At(p, "setenv")
    /\ \A q \in Procs \ {p} : inv[q].pc \in {"idle", "validate", "returned"}
    /\ v' = SetEnvKeyReplacer(SetEnvPrefix(v, inv[p].appName), <<<<"-", "_">>, <<".", "_">>>>)
    /\ inv' = [inv EXCEPT ![p].pc = "bind", ![p].trace = Did(p, "setenv")]
    /\ UNCHANGED <<fs, env, homeOK, watches, logger, exited>>

InitConfig_SetEnv(p) ==
    /\ At(p, "setenv")
    /\ v' = SetEnvKeyReplacer(SetEnvPrefix(v, inv[p].appName), <<<<"-", "_">>, <<".", "_">>>>)
    /\ inv' = [inv EXCEPT ![p].pc = "bind", ![p].trace = Did(p, "setenv")]
    /\ UNCHANGED <<fs, env, homeOK, watches, logger, exited>>

InitConfig_BindPFlags(p) ==
    /\ At(p, "bind")
    /\ v' = BindPFlags(v, inv[p].flags)
    /\ inv' = [inv EXCEPT ![p] =
                 IF BindPFlagsErr(inv[p].flags) # Nil
                 THEN Return(p, TRUE, BindPFlagsErr(inv[p].flags), "bind")
                 ELSE [inv[p] EXCEPT !.pc = "files", !.trace = Did(p, "bind")]]
    /\ UNCHANGED <<fs, env, homeOK, watches, logger, exited>>

\* RegisterFiles without the call of viper.AutomaticEnv()
RegisterFiles_NoAutomaticEnv(s, orgName, appName, cmd, cfgFile, home) ==
    IF cfgFile # Empty
    THEN SetConfigFile(s, cfgFile)
    ELSE AddConfigPath(
             AddConfigPath(
                 SetConfigType(SetConfigName(s, fullCommandName(cmd)), S_yaml),
                 PathJoin(<<S_etc, orgName, appName>>), home),
             IF home THEN PathJoin(<<S_home, S_dotconfig, orgName, appName>>) ELSE S_slashconfig, home)

\* RegisterFiles that registers the derived name and the search paths whatever cfgFile is
RegisterFiles_AlwaysSearch(s, orgName, appName, cmd, cfgFile, home) ==
    AutomaticEnv(
        AddConfigPath(
            AddConfigPath(
                SetConfigType(SetConfigName(SetConfigFile(s, cfgFile), fullCommandName(cmd)), S_yaml),
                PathJoin(<<S_etc, orgName, appName>>), home),
            IF home THEN PathJoin(<<S_home, S_dotconfig, orgName, appName>>) ELSE S_slashconfig, home))

\* the store after lines 118-139: the explicit file, or the derived name and the
\* system and user search paths; then AutomaticEnv
RegisterFiles(s, orgName, appName, cmd, cfgFile, home) ==
    AutomaticEnv(
        IF cfgFile # Empty
        THEN SetConfigFile(s, cfgFile)
        ELSE LET systemConfigPath == PathJoin(<<S_etc, orgName, appName>>)
                 homeConfigPath == IF home THEN PathJoin(<<S_home, S_dotconfig, orgName, appName>>)
                                   ELSE S_slashconfig
             IN  AddConfigPath(
                     AddConfigPath(
                         SetConfigType(SetConfigName(s, fullCommandName(cmd)), S_yaml),
                         systemConfigPath, home),
                     homeConfigPath, home))

InitConfig_Files(p) ==
    /\ At(p, "files")
    /\ v' = RegisterFiles(v, inv[p].orgName, inv[p].appName, inv[p].cmd, inv[p].cfgFile, homeOK)
    /\ inv' = [inv EXCEPT ![p].pc = "read", ![p].trace = Did(p, "files")]
    /\ UNCHANGED <<fs, env, homeOK, watches, logger, exited>>

\* InitConfig_Read that returns every error of ReadInConfig, file-not-found included
InitConfig_Read_AllFatal(p) ==
    /\ At(p, "read")
    /\ LET r == ReadInConfig(v, fs)
       IN  /\ v' = r.s
           /\ watches' = IF r.err = Nil THEN watches \cup {r.s.configFile} ELSE watches
           /\ inv' = [inv EXCEPT ![p] =
                 IF r.err # Nil
                 THEN [Return(p, TRUE, r.err, "read") EXCEPT !.readErr = r.err]
                 ELSE [inv[p] EXCEPT !.pc = "common", !.readErr = r.err, !.trace = Did(p, "read+watch")]]
    /\ UNCHANGED <<fs, env, homeOK, logger, exited>>

\* viper.ReadInConfig(), whose error is only compared with nil; viper.WatchConfig()
\* when it is nil
InitConfig_Read(p) ==
    /\ At(p, "read")
    /\ LET r == ReadInConfig(v, fs)
       IN  /\ v' = r.s
           /\ watches' = IF r.err = Nil THEN watches \cup {r.s.configFile} ELSE watches
           /\ inv' = [inv EXCEPT ![p].pc = "common", ![p].readErr = r.err,
                                 ![p].trace = Did(p, IF r.err = Nil THEN "read+watch" ELSE "read")]
    /\ UNCHANGED <<fs, env, homeOK, logger, exited>>

\* InitConfig_UnmarshalCommon that goes on to configure logging whatever the
\* unmarshal returns
InitConfig_UnmarshalCommon_ErrIgnored(p) ==
    /\ At(p, "common")
    /\ LET r == UnmarshalCommon(v, env, ZeroCommonConfig)
       IN  inv' = [inv EXCEPT ![p].pc = "logger", ![p].c = r.val, ![p].trace = Did(p, "common")]
    /\ UNCHANGED <<fs, env, homeOK, v, watches, logger, exited>>

InitConfig_UnmarshalCommon(p) ==
    /\ At(p, "common")
    /\ LET r == UnmarshalCommon(v, env, ZeroCommonConfig)
       IN  inv' = [inv EXCEPT ![p] =
                     IF r.err # Nil
                     THEN [Return(p, TRUE, r.err, "common") EXCEPT !.c = r.val]
                     ELSE [inv[p] EXCEPT !.pc = "logger", !.c = r.val, !.trace = Did(p, "common")]]
    /\ UNCHANGED <<fs, env, homeOK, v, watches, logger, exited>>

InitConfig_ConfigureLogger(p) ==
    /\ At(p, "logger")
    /\ logger' = ConfigureCmdLogger(logger, inv[p].c)
    /\ inv' = [inv EXCEPT ![p].pc = "decode", ![p].trace = Did(p, "logger")]
    /\ UNCHANGED <<fs, env, homeOK, v, watches, exited>>

\* InitConfig_UnmarshalConfig that returns (nil, err) when the decode fails
InitConfig_UnmarshalConfig_NilOnError(p) ==
    /\ At(p, "decode")
    /\ LET r == UnmarshalConfig(v, env, inv[p].cfg)
       IN  inv' = [inv EXCEPT ![p] = [Return(p, r.err # Nil, r.err, "decode") EXCEPT !.cfg = r.val]]
    /\ UNCHANGED <<fs, env, homeOK, v, watches, logger, exited>>

InitConfig_UnmarshalConfig(p) ==
    /\ At(p, "decode")
    /\ LET r == UnmarshalConfig(v, env, inv[p].cfg)
       IN  inv' = [inv EXCEPT ![p] = [Return(p, FALSE, r.err, "decode") EXCEPT !.cfg = r.val]]
    /\ UNCHANGED <<fs, env, homeOK, v, watches, logger, exited>>

(***************************************************************************)
(* The run functions after InitConfig                                      *)
(***************************************************************************)
\* CheckErr that only prints the error and lets the run function go on
CheckErr_NoExit(p) ==
    /\ At(p, "returned")
    /\ inv[p].kind \in {"CobraRunEWithConfig", "CobraRunE"}
    /\ inv' = [inv EXCEPT ![p].pc = "exec", ![p].trace = Did(p, "checked")]
    /\ UNCHANGED <<fs, env, homeOK, v, watches, logger, exited>>

\* cobra.CheckErr(err): a non-nil error is printed and the process exits with status 1
CheckErr(p) ==
    /\ At(p, "returned")
    /\ inv[p].kind \in {"CobraRunEWithConfig", "CobraRunE"}
    /\ IF inv[p].err # Nil
       THEN /\ exited' = TRUE
            /\ inv' = [inv EXCEPT ![p].pc = "exited", ![p].trace = Did(p, "os.Exit")]
       ELSE /\ exited' = exited
            /\ inv' = [inv EXCEPT ![p].pc = "exec", ![p].trace = Did(p, "checked")]
    /\ UNCHANGED <<fs, env, homeOK, v, watches, logger>>

\* return execFunc(cmd.Context(), cfg): the handler runs and its result is the
\* result of the run function
ExecFunc(p) ==
    /\ At(p, "exec")
    /\ \E res \in {Nil, <<"handler failed">>} :
          inv' = [inv EXCEPT ![p].pc = "done", ![p].handlerCalls = @ + 1,
                             ![p].handlerCfg = inv[p].cfg, ![p].result = res,
                             ![p].trace = Did(p, "handler")]
    /\ UNCHANGED <<fs, env, homeOK, v, watches, logger, exited>>

(***************************************************************************)
(* InitViperConfigWithFlagSet, statement by statement                      *)
(***************************************************************************)
InitViperConfigWithFlagSet(p) ==
    /\ ~exited
    /\ inv[p].pc = "idle"
    /\ \E flags \in FlagSets :
          inv' = [inv EXCEPT ![p] = [IdleInv EXCEPT
                    !.pc = "vbind", !.kind = "InitViperConfigWithFlagSet", !.flags = flags,
                    !.orgName = S_o, !.appName = S_app,
                    !.cfg = DefaultCfg, !.cfg0 = DefaultCfg, !.pre = Snapshot]]
    /\ UNCHANGED <<fs, env, homeOK, v, watches, logger, exited>>

InitViper_BindPFlags(p) ==
    /\ At(p, "vbind")
    /\ v' = BindPFlags(v, inv[p].flags)
    /\ inv' = [inv EXCEPT ![p] =
                 IF BindPFlagsErr(inv[p].flags) # Nil
                 THEN Return(p, TRUE, Wrap("error binding persistent flags", BindPFlagsErr(inv[p].flags)), "bind")
                 ELSE [inv[p] EXCEPT !.pc = "vfiles", !.trace = Did(p, "bind")]]
    /\ UNCHANGED <<fs, env, homeOK, watches, logger, exited>>

\* the store after lines 67-78
RegisterViperSources(s, e, orgName, appName, home) ==
    LET s1 == SetConfigType(SetConfigName(s, appName), S_yaml)
        s2 == AddConfigPath(s1, S_etc \o <<"/">> \o orgName \o <<"/">> \o appName, home)
        s3 == AddConfigPath(s2, S_dollarHome \o <<"/", ".">> \o orgName \o <<"/">> \o appName, home)
        s4 == AddConfigPath(s3, S_dollarHome \o <<"/">> \o S_dotconfig \o <<"/">> \o orgName \o <<"/">> \o appName, home)
        s5 == AddConfigPath(s4, <<".">>, home)
        s6 == SetEnvPrefix(s5, appName)
        s7 == IF GetString(s6, e, K_config) # Empty THEN SetConfigFile(s6, GetString(s6, e, K_config)) ELSE s6
    IN  SetEnvKeyReplacer(AutomaticEnv(s7), <<<<"-", "_">>>>)

InitViper_Files(p) ==
    /\ At(p, "vfiles")
    /\ v' = RegisterViperSources(v, env, inv[p].orgName, inv[p].appName, homeOK)
    /\ inv' = [inv EXCEPT ![p].pc = "vread", ![p].trace = Did(p, "files")]
    /\ UNCHANGED <<fs, env, homeOK, watches, logger, exited>>

InitViper_Read(p) ==
    /\ At(p, "vread")
    /\ LET r == ReadInConfig(v, fs)
       IN  /\ v' = r.s
           /\ inv' = [inv EXCEPT ![p] =
                 IF r.err # Nil /\ ~IsConfigFileNotFound(r.err)
                 THEN [Return(p, TRUE, <<"fatal error reading config file">> \o r.err, "read")
                          EXCEPT !.readErr = r.err]
                 ELSE [inv[p] EXCEPT !.pc = "vdecode", !.readErr = r.err, !.trace = Did(p, "read")]]
    /\ UNCHANGED <<fs, env, homeOK, watches, logger, exited>>

\* viper.Unmarshal(cfg), without the decode hooks of UnmarshalConfig
InitViper_Unmarshal(p) ==
    /\ At(p, "vdecode")
    /\ LET r == UnmarshalConfig(v, env, inv[p].cfg)
       IN  inv' = [inv EXCEPT ![p] = [Return(p, TRUE, r.err, "decode") EXCEPT !.cfg = r.val]]
    /\ UNCHANGED <<fs, env, homeOK, v, watches, logger, exited>>

(***************************************************************************)
(* A process that runs one entry point once, on the store as Viper         *)
(* creates it                                                              *)
(***************************************************************************)
Steps(p) ==
    \/ InitConfig_Validate(p)
    \/ InitConfig_SetEnv(p)
    \/ InitConfig_BindPFlags(p)
    \/ InitConfig_Files(p)
    \/ InitConfig_Read(p)
    \/ InitConfig_UnmarshalCommon(p)
    \/ InitConfig_ConfigureLogger(p)
    \/ InitConfig_UnmarshalConfig(p)
    \/ CheckErr(p)
    \/ ExecFunc(p)
    \/ InitViper_BindPFlags(p)
    \/ InitViper_Files(p)
    \/ InitViper_Read(p)
    \/ InitViper_Unmarshal(p)

Next ==
    \/ CobraRunEWithConfig(1)
    \/ CobraRunE(1)
    \/ InitViperConfigWithFlagSet(1)
    \/ Steps(1)

Spec == Init /\ [][Next]_vars


(***************************************************************************)
(* Properties                                                              *)
(***************************************************************************)
IsInitConfig(p) == inv[p].kind \in {"CobraRunEWithConfig", "CobraRunE"}
InTrace(p, step) == \E i \in 1..Len(inv[p].trace) : inv[p].trace[i] = step
LastStep(p) == IF inv[p].trace = << >> THEN "none" ELSE inv[p].trace[Len(inv[p].trace)]
\* the entry point (InitConfig or InitViperConfigWithFlagSet) has returned
HasReturned(p) == inv[p].pc \in {"returned", "exec", "done", "exited"}
\* the last statement the entry point ran before it returned
LastStepOfInit(p) ==
    LET steps == SelectSeq(inv[p].trace, LAMBDA x : x \notin {"os.Exit", "checked", "handler"})
    IN  IF steps = << >> THEN "none" ELSE steps[Len(steps)]
ValidNames(p) == ValidateName(inv[p].orgName) = Nil /\ ValidateName(inv[p].appName) = Nil

\* the three layers of the key port as the invocation was given them: the flag set
\* on the command line, the variable APP_PORT, the config file that was read
FlagLayerPort(p) == IF inv[p].flags[K_port].changed THEN inv[p].flags[K_port].val ELSE None
EnvLayerPort == IF env[E_PORT] # Empty THEN env[E_PORT] ELSE None
FileLayerPort(p) == IF inv[p].readErr = Nil THEN FileAt(fs, v.configFile).data[K_port] ELSE None

C2_ExplicitFileOverEnv ==
    \A p \in Procs :
        (/\ inv[p].kind = "InitViperConfigWithFlagSet"
         /\ HasReturned(p) /\ InTrace(p, "decode") /\ inv[p].err = Nil
         /\ inv[p].flags[K_config].defined /\ inv[p].flags[K_config].val = P_explicit
         /\ FlagLayerPort(p) = None
         /\ FileLayerPort(p) # None)
        => inv[p].cfg.Port = WeakInt(FileLayerPort(p))

\* C3: InitConfig for the subcommand serve of app, with valid names, no explicit
\* file and no config file at the system or user location (and nothing set in the
\* other layers: no variable of the environment, no flag that is set or has another
\* default than the struct) returns a nil error, the read having ended in
\* file-not-found, with the CommonConfig and the caller's struct at their defaults.
C3_NoFiles(p) ==
    /\ IsInitConfig(p) /\ inv[p].cmd = ServeCmd /\ ValidNames(p) /\ inv[p].cfgFile = Empty
    /\ \A q \in {P_sys, P_sysNL, P_userNL} : ~Exists(fs, q)
    /\ \A n \in EnvNames : env[n] = Empty
    /\ inv[p].flags[K_port] \in {NoFlag, MkFlag(V_8080, V_8080, FALSE)}

C3_DefaultsWithoutFile ==
    \A p \in Procs :
        (C3_NoFiles(p) /\ HasReturned(p))
        => /\ inv[p].err = Nil
           /\ ~inv[p].retNil
           /\ IsConfigFileNotFound(inv[p].readErr)
           /\ inv[p].c = ZeroCommonConfig
           /\ inv[p].cfg = inv[p].cfg0

C3_Witness == \E p \in Procs : C3_NoFiles(p) /\ HasReturned(p) /\ inv[p].cfg = DefaultCfg

\* C4: when the config file read of InitConfig fails with anything but
\* file-not-found, InitConfig aborts: nothing is unmarshalled, the error it
\* returns is not nil and the handler is not run.
C4_ReadErrorFatal ==
    \A p \in Procs :
        (IsInitConfig(p) /\ inv[p].readErr \in {<<"PathError: permission denied">>, <<"ConfigParseError">>})
        => /\ ~InTrace(p, "common") /\ ~InTrace(p, "decode")
           /\ inv[p].handlerCalls = 0
           /\ (HasReturned(p) => inv[p].err # Nil)

\* C5: the handler is invoked at most once, and only after InitConfig has returned
\* a nil error; once InitConfig has returned an error the run function never
\* reaches the handler.
C5_HandlerOnlyAfterSuccess ==
    \A p \in Procs :
        /\ inv[p].handlerCalls <= 1
        /\ (inv[p].handlerCalls = 1 => (InTrace(p, "decode") /\ inv[p].err = Nil))
        /\ ((HasReturned(p) /\ inv[p].err # Nil)
               => (inv[p].handlerCalls = 0 /\ inv[p].pc \in {"returned", "exited"}))

C5_Witness ==
    \E p \in Procs :
        /\ IsInitConfig(p) /\ inv[p].pc = "exited" /\ inv[p].err # Nil
        /\ LastStep(p) = "os.Exit" /\ InTrace(p, "decode")

\* C6: when InitConfig fails, the run function of CobraRunEWithConfig hands the
\* error to the command framework as its own result and does not end the process.
C6_ErrorPropagated ==
    \A p \in Procs :
        (/\ inv[p].kind = "CobraRunEWithConfig"
         /\ inv[p].err # Nil /\ inv[p].pc \in {"exec", "done", "exited"})
        => (~exited /\ inv[p].pc = "done" /\ inv[p].result = inv[p].err)

\* C7: InitConfig validates the names first; with an invalid org or app name it
\* returns (nil, error) and the store, the file watches and the logger are as they
\* were before the call.
C7_ValidationFirst ==
    \A p \in Procs :
        IsInitConfig(p) =>
            /\ (inv[p].trace # << >> => inv[p].trace[1] = "validate")
            /\ (~ValidNames(p) /\ inv[p].pc # "idle")
                  => /\ v = inv[p].pre.v /\ watches = inv[p].pre.watches /\ logger = inv[p].pre.logger
                     /\ inv[p].pc \in {"validate", "returned", "exited"}
                     /\ (HasReturned(p) => (inv[p].retNil /\ inv[p].err # Nil
                                             /\ inv[p].err[1] = "error validating org and app name"))

C7_Witness ==
    \E p \in Procs :
        /\ IsInitConfig(p) /\ inv[p].pc = "returned" /\ inv[p].appName = S_a_b
        /\ inv[p].err = <<"error validating org and app name", "invalid appName", "name must not contain spaces">>

\* C8: the pair InitConfig returns: a nil error comes with a non-nil CommonConfig; a
\* failed decode of the caller's struct comes with the non-nil CommonConfig that was
\* unmarshalled and given to the logger; a failed validation, flag binding or
\* CommonConfig unmarshal comes with a nil CommonConfig.
C8_ResultPair ==
    \A p \in Procs :
        (IsInitConfig(p) /\ HasReturned(p)) =>
            /\ (inv[p].err = Nil => ~inv[p].retNil)
            /\ (~inv[p].retNil => (InTrace(p, "common") /\ InTrace(p, "logger") /\ LastStepOfInit(p) = "decode"))
            /\ ((inv[p].err # Nil /\ InTrace(p, "decode")) => ~inv[p].retNil)
            /\ ((inv[p].err # Nil /\ ~InTrace(p, "decode")) => inv[p].retNil)

C8_Witness ==
    \E p \in Procs :
        /\ IsInitConfig(p) /\ inv[p].pc = "returned" /\ InTrace(p, "decode")
        /\ inv[p].err # Nil /\ ~inv[p].retNil /\ inv[p].c.Level = V_debug

C10_BaseName ==
    \A p \in Procs :
        (IsInitConfig(p) /\ inv[p].cfgFile = Empty /\ InTrace(p, "files"))
        => v.configName = IF inv[p].cmd = ServeCmd THEN S_app_serve ELSE S_app

(***************************************************************************)
(* Functions on their own: a call draws its arguments, and the state keeps *)
(* them with what the function returned                                    *)
(***************************************************************************)
InitCall ==
    /\ fs = FsWith({})
    /\ env = EnvWith(Empty, Empty, Empty)
    /\ homeOK = TRUE
    /\ v = ViperNew
    /\ watches = {}
    /\ logger = ZeroLogger
    /\ exited = FALSE
    /\ inv = [p \in Procs |-> IdleInv]

(***************************************************************************)
(* Default config names over a command tree                                *)
(***************************************************************************)
MaxDepth == 3

\* the Use strings of subcommands; a command name may hold a dash
SubNames == {<<"a">>, <<"b">>, <<"a", "-", "b">>}

\* the commands of the trees with root app, at most MaxDepth levels deep
TreeCmds == UNION {{RootCmd \o q : q \in [1..n -> SubNames]} : n \in 0..(MaxDepth - 1)}

\* InitConfig's derivation of the config name (line 131), for two commands of a tree
DeriveConfigNames(p) ==
    /\ inv[p].pc = "idle"
    /\ \E c1 \in TreeCmds, c2 \in TreeCmds :
          inv' = [inv EXCEPT ![p] = [pc |-> "named", cmd |-> c1, cmd2 |-> c2,
                                     name |-> fullCommandName(c1), name2 |-> fullCommandName(c2)]]
    /\ UNCHANGED <<fs, env, homeOK, v, watches, logger, exited>>

NextTree == DeriveConfigNames(1)

SpecTree == InitCall /\ [][NextTree]_vars

\* C11: two distinct commands of one tree (different chains of names from the root)
\* never get the same default config base name.
C11_DistinctNames ==
    \A p \in Procs :
        (inv[p].pc = "named" /\ inv[p].cmd # inv[p].cmd2) => inv[p].name # inv[p].name2

(***************************************************************************)
(* Default locations and the environment                                   *)
(***************************************************************************)
\* InitConfig searched the default locations of the subcommand serve of o/app, both
\* of which hold a readable file under the name the code searches for, with no
\* variable of the environment and no port flag set, and has decoded without error
C12_BothFiles(p) ==
    /\ IsInitConfig(p) /\ inv[p].cmd = ServeCmd /\ ValidNames(p) /\ inv[p].cfgFile = Empty
    /\ homeOK
    /\ FileAt(fs, P_sysNL).state = "ok" /\ FileAt(fs, P_userNL).state = "ok"
    /\ \A n \in EnvNames : env[n] = Empty
    /\ FlagLayerPort(p) = None
    /\ HasReturned(p) /\ InTrace(p, "decode") /\ inv[p].err = Nil

\* C12: with no explicit file and a config file at both the system and the user
\* location, a key both files define (port) resolves to the value of the user file.
C12_UserOverSystem ==
    \A p \in Procs :
        (C12_BothFiles(p) /\ FileAt(fs, P_sysNL).data[K_port] # None
                          /\ FileAt(fs, P_userNL).data[K_port] # None)
        => inv[p].cfg.Port = WeakInt(FileAt(fs, P_userNL).data[K_port])

\* C13: once InitConfig or InitViperConfigWithFlagSet has registered its sources for
\* the app name A, the environment variable of every key K is UPPER(A), an
\* underscore, and UPPER(K) with every dash and every dot replaced by an underscore.
C13_EnvVarName ==
    \A p \in Procs :
        (inv[p].pc # "idle" /\ InTrace(p, "files")) =>
            \A k \in ConfigKeys :
                EnvVarName(v, k) =
                    ToUpper(inv[p].appName) \o <<"_">>
                        \o ToUpper(Replace(<<<<"-", "_">>, <<".", "_">>>>, k))

(***************************************************************************)
(* Name validation on its own                                              *)
(***************************************************************************)
MaxNameLen == 3
MaxPairLen == 2

\* a non-ASCII letter (the first rune of the test's unicode name)
Han == "U+7EC4"

\* the characters names are drawn from: letters, dash, underscore, dot, white
\* space, and every character of the forbidden set
NameChars ==
    {"a", Han, "-", "_", ".", " ", "\t", "\n"} \cup {specialChars[i] : i \in 1..Len(specialChars)}

\* the names of n characters
Names(n) == [1..n -> NameChars]

\* the names org and app are drawn from when both are validated together
PairChars == {"a", " ", "/", "."}
PairNames == UNION {[1..n -> PairChars] : n \in 0..MaxPairLen}

\* a call of ValidateName(name)
ValidateNameCall(p) ==
    /\ inv[p].pc = "idle"
    /\ \E n \in 0..MaxNameLen : \E name \in Names(n) :
          inv' = [inv EXCEPT ![p] = [pc |-> "validated", name |-> name, err |-> ValidateName(name)]]
    /\ UNCHANGED <<fs, env, homeOK, v, watches, logger, exited>>

\* a call of ValidateOrgAndAppName(orgName, appName)
ValidateOrgAndAppNameCall(p) ==
    /\ inv[p].pc = "idle"
    /\ \E orgName \in PairNames, appName \in PairNames :
          inv' = [inv EXCEPT ![p] = [pc |-> "validated both", orgName |-> orgName, appName |-> appName,
                                     err |-> ValidateOrgAndAppName(orgName, appName)]]
    /\ UNCHANGED <<fs, env, homeOK, v, watches, logger, exited>>

NextNames == ValidateNameCall(1) \/ ValidateOrgAndAppNameCall(1)

SpecNames == InitCall /\ [][NextNames]_vars

\* unicode.IsPrint, for the characters of NameChars: the control characters are not
IsPrint(c) == c \notin {"\t", "\n", "\r", "\f"}

IsSpecial(c) == \E i \in 1..Len(specialChars) : specialChars[i] = c

\* C14: ValidateName returns an error for every name that is empty or only white
\* space, holds a path separator, is . or .., holds a white space character of any
\* kind anywhere, or holds a character of the forbidden set.
C14_RejectsInvalid ==
    \A p \in Procs :
        (/\ inv[p].pc = "validated"
         /\ \/ inv[p].name = Empty
            \/ inv[p].name \in {<<".">>, <<".", ".">>}
            \/ \E i \in 1..Len(inv[p].name) :
                  IsSpace(inv[p].name[i]) \/ inv[p].name[i] = "/" \/ IsSpecial(inv[p].name[i]))
        => inv[p].err # Nil

\* the name is not empty and all its characters are printable and neither a space,
\* a path separator nor of the forbidden set
C15_CleanName(name) ==
    /\ name # Empty
    /\ \A i \in 1..Len(name) :
          IsPrint(name[i]) /\ name[i] # " " /\ name[i] # "/" /\ ~IsSpecial(name[i])

\* C15 as stated: ValidateName returns nil for every non-empty name of printable
\* characters that are neither a space, a path separator nor of the forbidden set.
C15_AcceptsClean ==
    \A p \in Procs :
        (inv[p].pc = "validated" /\ C15_CleanName(inv[p].name)) => inv[p].err = Nil

\* C15: ValidateName returns nil for every such name other than . and .. (non-ASCII
\* letters, dashes and underscores included).
C15_AcceptsCleanButDots ==
    \A p \in Procs :
        (/\ inv[p].pc = "validated" /\ C15_CleanName(inv[p].name)
         /\ inv[p].name \notin {<<".">>, <<".", ".">>})
        => inv[p].err = Nil

C15_Witness ==
    \E p \in Procs :
        inv[p].pc = "validated" /\ inv[p].name = <<Han, "-", "_">> /\ inv[p].err = Nil

\* C16: ValidateOrgAndAppName returns nil exactly when ValidateName accepts both
\* names; otherwise its error wraps that of ValidateName under the field that
\* failed: orgName when org is invalid (also when both are), appName when only app is.
C16_NamesTheField ==
    \A p \in Procs :
        inv[p].pc = "validated both" =>
            LET eo == ValidateName(inv[p].orgName)
                ea == ValidateName(inv[p].appName)
            IN  /\ (inv[p].err = Nil <=> (eo = Nil /\ ea = Nil))
                /\ (eo # Nil => inv[p].err = <<"invalid orgName">> \o eo)
                /\ ((eo = Nil /\ ea # Nil) => inv[p].err = <<"invalid appName">> \o ea)

C16_Witness ==
    \E p \in Procs :
        /\ inv[p].pc = "validated both"
        /\ inv[p].orgName = <<" ", "a">> /\ inv[p].appName = <<"a", "/">>
        /\ inv[p].err = <<"invalid orgName", "name must not start with a space">>

(***************************************************************************)
(* Default paths: IsDocker, DefaultUserConfigPath and the functions built  *)
(* on it, over a filesystem of directories                                 *)
(***************************************************************************)
S_dockerenv == <<"/", ".", "d", "o", "c", "k", "e", "r", "e", "n", "v">>
S_persist == <<"/", "p", "e", "r", "s", "i", "s", "t">>
S_state == <<"s", "t", "a", "t", "e">>

\* a directory the user may write in, and one the user may not
Dir == [state |-> "dir", data |-> NoData]
RoDir == [state |-> "rodir", data |-> NoData]

\* os.Stat("/.dockerenv") returns no error
IsDocker(f) == Exists(f, S_dockerenv)

IsDir(f, path) == path = <<"/">> \/ FileAt(f, path).state \in {"dir", "rodir"}
Writable(f, path) == FileAt(f, path).state = "dir"

\* filepath.Dir of an absolute path
ParentDir(path) ==
    LET i == CHOOSE i \in 1..Len(path) : path[i] = "/" /\ \A j \in (i + 1)..Len(path) : path[j] # "/"
    IN  IF i = 1 THEN <<"/">> ELSE SubSeq(path, 1, i - 1)

\* os.MkdirAll(path, 0700): the filesystem after the call and the error; the
\* directories made before a failure stay
RECURSIVE MkdirAll(_, _)
MkdirAll(f, path) ==
    IF IsDir(f, path) THEN [f |-> f, err |-> Nil]
    ELSE IF Exists(f, path) THEN [f |-> f, err |-> <<"mkdir: not a directory">>]
    ELSE LET r == MkdirAll(f, ParentDir(path))
         IN  IF r.err # Nil THEN r
             ELSE IF ~Writable(r.f, ParentDir(path))
             THEN [f |-> r.f, err |-> <<"mkdir: permission denied">>]
             ELSE [f |-> (path :> Dir) @@ r.f, err |-> Nil]

\* home: whether user.Current() succeeds
DefaultUserConfigPath(f, home, orgName, appName) ==
    IF ValidateOrgAndAppName(orgName, appName) # Nil
    THEN [path |-> Empty, f |-> f,
          err |-> Wrap("error validating org and app name", ValidateOrgAndAppName(orgName, appName))]
    ELSE IF ~home THEN [path |-> Empty, f |-> f, err |-> <<"user: Current failed">>]
    ELSE LET userConfigPath == PathJoin(<<S_home, S_dotconfig, orgName, appName>>)
             r == MkdirAll(f, userConfigPath)
         IN  IF r.err # Nil THEN [path |-> Empty, f |-> r.f, err |-> r.err]
             ELSE [path |-> userConfigPath, f |-> r.f, err |-> Nil]

DefaultPersistencePath(f, home, orgName, appName) ==
    IF IsDocker(f) THEN [path |-> S_persist, f |-> f, err |-> Nil]
    ELSE IF ValidateOrgAndAppName(orgName, appName) # Nil
    THEN [path |-> Empty, f |-> f,
          err |-> Wrap("error validating org and app name", ValidateOrgAndAppName(orgName, appName))]
    ELSE DefaultUserConfigPath(f, home, orgName, appName)

\* DefaultConfigPath that does not look for the container marker
DefaultConfigPath_AlwaysUser(f, home, orgName, appName) ==
    DefaultUserConfigPath(f, home, orgName, appName)

DefaultConfigPath(f, home, orgName, appName) ==
    IF IsDocker(f) THEN [path |-> S_slashconfig, f |-> f, err |-> Nil]
    ELSE DefaultUserConfigPath(f, home, orgName, appName)

\* DefaultConfigFile that joins the base name without the extension
DefaultConfigFile_NoExt(f, home, orgName, appName, baseName) ==
    LET r == DefaultConfigPath(f, home, orgName, appName)
    IN  IF r.err # Nil THEN [path |-> Empty, f |-> r.f, err |-> r.err]
        ELSE [path |-> PathJoin(<<r.path, baseName>>), f |-> r.f, err |-> Nil]

DefaultConfigFile(f, home, orgName, appName, baseName) ==
    LET r == DefaultConfigPath(f, home, orgName, appName)
    IN  IF r.err # Nil THEN [path |-> Empty, f |-> r.f, err |-> r.err]
        ELSE [path |-> PathJoin(<<r.path, baseName \o S_dotyaml>>), f |-> r.f, err |-> Nil]

DefaultPersistenceFile(f, home, orgName, appName, baseName) ==
    LET r == DefaultPersistencePath(f, home, orgName, appName)
    IN  IF r.err # Nil THEN [path |-> Empty, f |-> r.f, err |-> r.err]
        ELSE [path |-> PathJoin(<<r.path, baseName \o S_dotyaml>>), f |-> r.f, err |-> Nil]

P_cfg == PathJoin(<<S_home, S_dotconfig>>)
P_org == PathJoin(<<S_home, S_dotconfig, S_o>>)
P_target == PathJoin(<<S_home, S_dotconfig, S_o, S_app>>)

\* the filesystems a call starts on: the container marker present or not, the home
\* directory writable or not, $HOME/.config missing, a directory or a regular file,
\* the directory of o/app there already or not
FsPathsInit ==
    { (S_dockerenv :> m) @@ (S_home :> h) @@ (P_cfg :> c) @@ (P_org :> t) @@ (P_target :> t) :
        <<m, h, c, t>> \in
            { x \in {Absent, File(NoData)} \X {Dir, RoDir} \X {Absent, Dir, RoDir, File(NoData)} \X {Absent, Dir} :
                x[4] = Dir => x[3] \in {Dir, RoDir} } }

PathNames == {S_o, S_app, S_a_b}
BaseNames == {K_config, S_state}

InitPaths ==
    /\ fs \in FsPathsInit
    /\ env = EnvWith(Empty, Empty, Empty)
    /\ homeOK \in BOOLEAN
    /\ v = ViperNew
    /\ watches = {}
    /\ logger = ZeroLogger
    /\ exited = FALSE
    /\ inv = [p \in Procs |-> IdleInv]

\* the calls come one after the other
Turn(p) == inv[p].pc = "idle" /\ (p = 1 \/ inv[1].pc = "called")

\* the call has returned r: the filesystem is as the call left it
Called(p, fn, orgName, appName, baseName, r) ==
    /\ fs' = r.f
    /\ inv' = [inv EXCEPT ![p] = [pc |-> "called", fn |-> fn, orgName |-> orgName, appName |-> appName,
                                  baseName |-> baseName, path |-> r.path, err |-> r.err,
                                  pre |-> fs, post |-> r.f]]
    /\ UNCHANGED <<env, homeOK, v, watches, logger, exited>>

DefaultUserConfigPathCall(p) ==
    /\ Turn(p)
    /\ \E orgName \in PathNames, appName \in PathNames :
          Called(p, "DefaultUserConfigPath", orgName, appName, Empty,
                 DefaultUserConfigPath(fs, homeOK, orgName, appName))

DefaultPersistencePathCall(p) ==
    /\ Turn(p)
    /\ \E orgName \in PathNames, appName \in PathNames :
          Called(p, "DefaultPersistencePath", orgName, appName, Empty,
                 DefaultPersistencePath(fs, homeOK, orgName, appName))

DefaultConfigPathCall(p) ==
    /\ Turn(p)
    /\ \E orgName \in PathNames, appName \in PathNames :
          Called(p, "DefaultConfigPath", orgName, appName, Empty,
                 DefaultConfigPath(fs, homeOK, orgName, appName))

DefaultConfigFileCall(p) ==
    /\ Turn(p)
    /\ \E orgName \in PathNames, appName \in PathNames, baseName \in BaseNames :
          Called(p, "DefaultConfigFile", orgName, appName, baseName,
                 DefaultConfigFile(fs, homeOK, orgName, appName, baseName))

DefaultPersistenceFileCall(p) ==
    /\ Turn(p)
    /\ \E orgName \in PathNames, appName \in PathNames, baseName \in BaseNames :
          Called(p, "DefaultPersistenceFile", orgName, appName, baseName,
                 DefaultPersistenceFile(fs, homeOK, orgName, appName, baseName))

NextPaths ==
    \E p \in Procs :
        \/ DefaultUserConfigPathCall(p)
        \/ DefaultPersistencePathCall(p)
        \/ DefaultConfigPathCall(p)
        \/ DefaultConfigFileCall(p)
        \/ DefaultPersistenceFileCall(p)

SpecPaths == InitPaths /\ [][NextPaths]_vars

\* the home directory and everything below it is missing or a directory the user
\* may write in
C17_HomeUsable(f) ==
    \A q \in DOMAIN f : q # S_dockerenv => f[q].state \in {"absent", "dir"}

\* C17: with the container marker present DefaultConfigPath returns /config and
\* DefaultPersistencePath /persist, with a nil error, for any org and app and
\* without touching the filesystem; with the marker absent both return an error for
\* invalid names, and for valid names, where the home directory is found and can be
\* written, return $HOME/.config/{org}/{app} with a nil error, the directory being
\* there after the call.
C17_DefaultPaths ==
    \A p \in Procs :
        (inv[p].pc = "called" /\ inv[p].fn \in {"DefaultConfigPath", "DefaultPersistencePath"}) =>
            LET c == inv[p]
                valid == ValidateName(c.orgName) = Nil /\ ValidateName(c.appName) = Nil
                userPath == S_home \o <<"/">> \o S_dotconfig \o <<"/">> \o c.orgName \o <<"/">> \o c.appName
            IN  IF Exists(c.pre, S_dockerenv)
                THEN /\ c.err = Nil /\ c.post = c.pre
                     /\ c.path = IF c.fn = "DefaultConfigPath" THEN S_slashconfig ELSE S_persist
                ELSE /\ (~valid => c.err # Nil)
                     /\ (c.err = Nil => (c.path = userPath /\ FileAt(c.post, userPath).state = "dir"))
                     /\ ((valid /\ homeOK /\ C17_HomeUsable(c.pre)) => c.err = Nil)

C17_Witness ==
    /\ inv[1].pc = "called" /\ inv[1].fn = "DefaultConfigPath" /\ inv[1].err = Nil
    /\ ~Exists(inv[1].pre, S_dockerenv) /\ ~Exists(inv[1].pre, P_cfg)
    /\ inv[1].path = P_target /\ FileAt(inv[1].post, P_target).state = "dir"
    /\ inv[2].pc = "called" /\ inv[2].fn = "DefaultPersistencePath" /\ inv[2].path = P_target

\* C18: DefaultConfigFile returns the path of DefaultConfigPath joined with
\* {base}.yaml, or an empty path with the error of DefaultConfigPath when that
\* fails; DefaultPersistenceFile likewise over DefaultPersistencePath; and the
\* second of two successive calls with the same arguments returns the path the
\* first returned.
C18_DefaultFiles ==
    /\ \A p \in Procs :
          (inv[p].pc = "called" /\ inv[p].fn \in {"DefaultConfigFile", "DefaultPersistenceFile"}) =>
              LET c == inv[p]
                  r == IF c.fn = "DefaultConfigFile"
                       THEN DefaultConfigPath(c.pre, homeOK, c.orgName, c.appName)
                       ELSE DefaultPersistencePath(c.pre, homeOK, c.orgName, c.appName)
              IN  /\ c.err = r.err
                  /\ c.path = IF r.err # Nil THEN Empty
                              ELSE r.path \o <<"/">> \o c.baseName \o <<".", "y", "a", "m", "l">>
    /\ (/\ inv[1].pc = "called" /\ inv[2].pc = "called"
        /\ inv[1].fn \in {"DefaultConfigFile", "DefaultPersistenceFile"}
        /\ inv[2].fn = inv[1].fn /\ inv[2].orgName = inv[1].orgName
        /\ inv[2].appName = inv[1].appName /\ inv[2].baseName = inv[1].baseName)
       => (inv[2].path = inv[1].path /\ inv[2].err = inv[1].err)

C18_Witness ==
    /\ inv[1].pc = "called" /\ inv[2].pc = "called"
    /\ inv[1].fn = "DefaultConfigFile" /\ inv[2].fn = "DefaultConfigFile"
    /\ inv[1].orgName = S_o /\ inv[2].orgName = S_o
    /\ inv[1].appName = S_app /\ inv[2].appName = S_app
    /\ inv[1].baseName = K_config /\ inv[2].baseName = K_config
    /\ ~Exists(inv[1].pre, S_dockerenv) /\ ~Exists(inv[1].pre, P_target)
    /\ inv[1].post # inv[1].pre /\ inv[2].post = inv[2].pre
    /\ inv[1].path = P_target \o <<"/">> \o K_config \o S_dotyaml
    /\ inv[2].path = inv[1].path

\* C19: when the home directory cannot be found, the search of InitConfig for the
\* default locations fails: InitConfig returns an error and registers no path in
\* place of the user location.
C19_HomeLookupFatal ==
    \A p \in Procs :
        (IsInitConfig(p) /\ inv[p].cfgFile = Empty /\ ~homeOK /\ InTrace(p, "files"))
        => /\ ~InSeq(v.configPaths, S_slashconfig)
           /\ (HasReturned(p) => inv[p].err # Nil)

(***************************************************************************)
(* Context metadata on its own                                             *)
(***************************************************************************)
MaxOpts == 3

\* the transforms a call of Context is given
ContextOpts == {SetOrgName(S_o), SetOrgName(S_app), SetAppName(S_app), SetAppName(S_serve)}

\* the parents: nil, an empty root, and contexts that carry names already
Parents ==
    {NilCtx, Empty, <<SetOrgName(S_serve)>>, <<SetAppName(S_o)>>,
     <<SetOrgName(S_serve), SetAppName(S_o)>>}

\* a call of Context(ctx, contextOpts...) and the names read from its result and,
\* after the call, from the parent
ContextCall(p) ==
    /\ inv[p].pc = "idle"
    /\ \E parent \in Parents, n \in 0..MaxOpts : \E contextOpts \in [1..n -> ContextOpts] :
          LET ctx == Context(parent, contextOpts)
          IN  inv' = [inv EXCEPT ![p] =
                        [pc |-> "built", parent |-> parent, contextOpts |-> contextOpts, ctx |-> ctx,
                         orgName |-> OrgNameFromContext(ctx), appName |-> AppNameFromContext(ctx),
                         parentOrgName |-> IF parent = NilCtx THEN Empty ELSE OrgNameFromContext(parent),
                         parentAppName |-> IF parent = NilCtx THEN Empty ELSE AppNameFromContext(parent)]]
    /\ UNCHANGED <<fs, env, homeOK, v, watches, logger, exited>>

NextCtx == ContextCall(1)

SpecCtx == InitCall /\ [][NextCtx]_vars

\* the value the parent carries under a key: the latest entry of its chain, the
\* empty string when it has none or is nil
C20_ParentValue(parent, key) ==
    LET idx == {i \in 1..Len(parent) : parent[i].k = key}
    IN  IF idx = {} THEN Empty ELSE parent[CHOOSE i \in idx : \A j \in idx : j <= i].val

\* the value of the last transform of the sequence for a key, None without one
C20_LastSet(opts, key) ==
    LET idx == {i \in 1..Len(opts) : opts[i].k = key}
    IN  IF idx = {} THEN None ELSE opts[CHOOSE i \in idx : \A j \in idx : j <= i].val

\* C20: the org (app) name read from the result of Context is the value of the last
\* SetOrgName (SetAppName) of the sequence, or the parent's value without one, or
\* the empty string when neither has it (a nil parent has none); and the parent
\* reports after the call the values it had.
C20_LastSetWins ==
    \A p \in Procs :
        inv[p].pc = "built" =>
            LET c == inv[p]
            IN  /\ c.orgName = IF C20_LastSet(c.contextOpts, "orgName") # None
                               THEN C20_LastSet(c.contextOpts, "orgName")
                               ELSE C20_ParentValue(c.parent, "orgName")
                /\ c.appName = IF C20_LastSet(c.contextOpts, "appName") # None
                               THEN C20_LastSet(c.contextOpts, "appName")
                               ELSE C20_ParentValue(c.parent, "appName")
                /\ c.parentOrgName = C20_ParentValue(c.parent, "orgName")
                /\ c.parentAppName = C20_ParentValue(c.parent, "appName")

C20_Witness ==
    \E p \in Procs :
        /\ inv[p].pc = "built"
        /\ inv[p].parent = <<SetOrgName(S_serve), SetAppName(S_o)>>
        /\ inv[p].contextOpts = <<SetOrgName(S_o), SetOrgName(S_app)>>
        /\ inv[p].orgName = S_app /\ inv[p].appName = S_o
        /\ inv[p].parentOrgName = S_serve

(***************************************************************************)
(* NewCommand and WithConfigFlag                                           *)
(***************************************************************************)
MaxCmdOpts == 2

S_myyaml == <<"m", "y", ".", "y", "a", "m", "l">>

\* a command: its identity (the pointer), its flags, whether RunE is set, and
\* whether a call on it has panicked
MkCmd(id, flags) == [id |-> id, flags |-> flags, runE |-> FALSE, panicked |-> FALSE]

\* cmd.Flags().StringP(name, shorthand, value, usage): pflag panics when the name
\* or the shorthand is taken already
StringP(cmd, name, shorthand, value) ==
    IF cmd.panicked THEN cmd
    ELSE IF cmd.flags[name].defined \/ \E k \in FlagKeys : cmd.flags[k].shorthand = shorthand
    THEN [cmd EXCEPT !.panicked = TRUE]
    ELSE [cmd EXCEPT !.flags[name] = [MkFlag(value, value, FALSE) EXCEPT !.shorthand = shorthand]]

\* WithConfigFlag that adds the flag without a shorthand
WithConfigFlag_NoShorthand(cmd, defaultConfigFile) ==
    IF cmd.panicked \/ cmd.flags[K_config].defined THEN [cmd EXCEPT !.panicked = TRUE]
    ELSE [cmd EXCEPT !.flags[K_config] = MkFlag(defaultConfigFile, defaultConfigFile, FALSE)]

\* the option WithConfigFlag(defaultConfigFile), applied to cmd
WithConfigFlag(cmd, defaultConfigFile) == StringP(cmd, K_config, <<"c">>, defaultConfigFile)

\* gpflag.ParseTo(defaultConfig, cmd.Flags()): a flag for each field of the struct,
\* its default the value of the field; fields is the set of the struct's flag names
ParseTo(cmd, fields) ==
    [cmd EXCEPT !.flags = [k \in FlagKeys |->
        IF k \in fields /\ ~cmd.flags[k].defined
        THEN MkFlag(IF k = K_port THEN V_8080 ELSE Empty, IF k = K_port THEN V_8080 ELSE Empty, FALSE)
        ELSE cmd.flags[k]]]

\* for _, opt := range opts { opt(cmd) }, every option a WithConfigFlag
RECURSIVE ApplyOpts(_, _)
ApplyOpts(cmd, opts) ==
    IF opts = << >> THEN cmd ELSE ApplyOpts(WithConfigFlag(cmd, Head(opts)), Tail(opts))

NewCommand(cmd, fields, opts) == ApplyOpts(ParseTo([cmd EXCEPT !.runE = TRUE], fields), opts)

\* the default values an option is given, the structs NewCommand is given (without
\* and with a field named Config), and the commands WithConfigFlag is applied to
ConfigDefaults == {Empty, S_cyaml, S_myyaml, K_config}
StructFields == {{K_port}, {K_port, K_config}}
BareCmds ==
    {MkCmd(id, flags) : id \in {"cmd1", "cmd2"},
       flags \in {NoFlags,
                  [NoFlags EXCEPT ![K_port] = MkFlag(V_8080, V_8080, FALSE)],
                  [NoFlags EXCEPT ![K_port] = [MkFlag(V_8080, V_8080, FALSE) EXCEPT !.shorthand = <<"c">>]],
                  [NoFlags EXCEPT ![K_config] = MkFlag(Empty, Empty, FALSE)]}}

\* opt := WithConfigFlag(d); opt(cmd)
WithConfigFlagCall(p) ==
    /\ inv[p].pc = "idle"
    /\ \E cmd \in BareCmds, d \in ConfigDefaults :
          inv' = [inv EXCEPT ![p] = [pc |-> "built", fn |-> "WithConfigFlag", cmd0 |-> cmd, opts |-> <<d>>,
                                     cmd |-> WithConfigFlag(cmd, d)]]
    /\ UNCHANGED <<fs, env, homeOK, v, watches, logger, exited>>

\* NewCommand(cmd, runFunc, defaultConfig, opts...) on a command without flags
NewCommandCall(p) ==
    /\ inv[p].pc = "idle"
    /\ \E id \in {"cmd1", "cmd2"}, fields \in StructFields, n \in 0..MaxCmdOpts :
          \E opts \in [1..n -> ConfigDefaults] :
             inv' = [inv EXCEPT ![p] = [pc |-> "built", fn |-> "NewCommand",
                                        cmd0 |-> ParseTo(MkCmd(id, NoFlags), fields), opts |-> opts,
                                        cmd |-> NewCommand(MkCmd(id, NoFlags), fields, opts)]]
    /\ UNCHANGED <<fs, env, homeOK, v, watches, logger, exited>>

NextCmd == WithConfigFlagCall(1) \/ NewCommandCall(1)

SpecCmd == InitCall /\ [][NextCmd]_vars

\* the command has the string flag config, shorthand c, default d, and its other
\* flags as before
C21_ConfigFlagAdded(c) ==
    /\ ~c.cmd.panicked
    /\ c.cmd.id = c.cmd0.id
    /\ c.cmd.flags[K_config] =
          [defined |-> TRUE, def |-> c.opts[1], val |-> c.opts[1], changed |-> FALSE, shorthand |-> <<"c">>]
    /\ \A k \in FlagKeys \ {K_config} : c.cmd.flags[k] = c.cmd0.flags[k]
    /\ (c.fn = "NewCommand" => c.cmd.runE)

\* C21 as stated: applying WithConfigFlag(d) to a command, directly or as the option
\* of NewCommand, adds the string flag config with shorthand c and default d, and
\* NewCommand returns the same command with its run function set.
C21_AddsConfigFlag ==
    \A p \in Procs :
        (inv[p].pc = "built" /\ Len(inv[p].opts) = 1) => C21_ConfigFlagAdded(inv[p])

\* C21: the same for a command that has no flag named config and no flag with the
\* shorthand c before the option is applied; NewCommand without options returns
\* the same command with its run function set.
C21_AddsConfigFlagWhenFree ==
    \A p \in Procs :
        inv[p].pc = "built" =>
            /\ (/\ Len(inv[p].opts) = 1
                /\ ~inv[p].cmd0.flags[K_config].defined
                /\ \A k \in FlagKeys : inv[p].cmd0.flags[k].shorthand # <<"c">>)
               => C21_ConfigFlagAdded(inv[p])
            /\ (inv[p].fn = "NewCommand" /\ Len(inv[p].opts) = 0)
               => (~inv[p].cmd.panicked /\ inv[p].cmd.runE /\ inv[p].cmd.id = inv[p].cmd0.id
                   /\ inv[p].cmd.flags = inv[p].cmd0.flags)

C21_Witness ==
    \E p \in Procs :
        /\ inv[p].pc = "built" /\ inv[p].fn = "NewCommand" /\ inv[p].opts = <<S_cyaml>>
        /\ inv[p].cmd.runE /\ inv[p].cmd.flags[K_port].defined
        /\ inv[p].cmd.flags[K_config].def = S_cyaml /\ inv[p].cmd.flags[K_config].shorthand = <<"c">>

(***************************************************************************)
(* UnmarshalConfig's hook chain, for one field of the caller's struct and  *)
(* the string the store holds for its key                                  *)
(***************************************************************************)
\* strings.Split(s, sep) for a one-character separator
RECURSIVE Split(_, _)
Split(s, sep) ==
    IF \E i \in 1..Len(s) : s[i] = sep
    THEN LET i == CHOOSE i \in 1..Len(s) : s[i] = sep /\ \A j \in 1..(i - 1) : s[j] # sep
         IN  <<SubSeq(s, 1, i - 1)>> \o Split(SubSeq(s, i + 1, Len(s)), sep)
    ELSE <<s>>

\* a decoded value: of type t, with the string, the number (an int, or the
\* milliseconds of a duration), the address bytes and the prefix length it holds
Val(t, s, n, o, bits) == [t |-> t, s |-> s, n |-> n, o |-> o, bits |-> bits]
StringVal(s) == Val("string", s, 0, << >>, 0)
IntVal(n) == Val("int", Empty, n, << >>, 0)
DurationVal(ms) == Val("duration", Empty, ms, << >>, 0)
IPVal(o) == Val("ip", Empty, 0, o, 0)
IPNetVal(o, bits) == Val("ipnet", Empty, 0, o, bits)
NoVal == Val("none", Empty, 0, << >>, 0)

\* a decimal number without a leading zero, at most max
IsDecimalUpTo(s, max) ==
    /\ IsNumber(s) /\ Len(s) <= 3
    /\ (Len(s) > 1 => s[1] # "0")
    /\ DecVal(s) <= max

\* net.ParseIP for dotted IPv4 text
ParseIPOk(s) ==
    /\ Len(Split(s, ".")) = 4
    /\ \A i \in 1..4 : IsDecimalUpTo(Split(s, ".")[i], 255)
ParseIP(s) == [i \in 1..4 |-> DecVal(Split(s, ".")[i])]

RECURSIVE Pow2(_)
Pow2(n) == IF n = 0 THEN 1 ELSE 2 * Pow2(n - 1)

\* the i-th byte of an address under the mask of a prefix length
MaskByte(b, i, bits) ==
    LET keep == IF bits >= 8 * i THEN 8 ELSE IF bits <= 8 * (i - 1) THEN 0 ELSE bits - 8 * (i - 1)
    IN  (b \div Pow2(8 - keep)) * Pow2(8 - keep)

\* net.ParseCIDR for IPv4 text: the network it returns is the address under the mask
ParseCIDROk(s) ==
    /\ Len(Split(s, "/")) = 2
    /\ ParseIPOk(Split(s, "/")[1])
    /\ IsDecimalUpTo(Split(s, "/")[2], 32)
ParseCIDR(s) ==
    LET ip == ParseIP(Split(s, "/")[1])
        bits == DecVal(Split(s, "/")[2])
    IN  IPNetVal([i \in 1..4 |-> MaskByte(ip[i], i, bits)], bits)

\* time.ParseDuration for a number followed by one of the units ms, s, m, h (or
\* the bare 0), in milliseconds
DurationUnits == <<<<<<"m", "s">>, 1>>, <<<<"s">>, 1000>>, <<<<"m">>, 60000>>, <<<<"h">>, 3600000>>>>
ParseDurationOk(s) ==
    \/ s = <<"0">>
    \/ \E u \in 1..Len(DurationUnits) : \E k \in 1..(Len(s) - 1) :
          IsNumber(SubSeq(s, 1, k)) /\ SubSeq(s, k + 1, Len(s)) = DurationUnits[u][1]
ParseDuration(s) ==
    IF s = <<"0">> THEN 0
    ELSE LET k == CHOOSE k \in 1..(Len(s) - 1) :
                     IsNumber(SubSeq(s, 1, k)) /\ ~IsDigit(s[k + 1])
             u == CHOOSE u \in 1..Len(DurationUnits) : SubSeq(s, k + 1, Len(s)) = DurationUnits[u][1]
         IN  DecVal(SubSeq(s, 1, k)) * DurationUnits[u][2]

\* a hook returns the data it passes on and its error
HookOut(data, err) == [data |-> data, err |-> err]

\* util.MaskedStringDecodeHook: acts on fields of type MaskedString only
MaskedStringDecodeHook(to, data) == HookOut(data, Nil)

StringToTimeDurationHookFunc(to, data) ==
    IF data.t # "string" \/ to # "duration" THEN HookOut(data, Nil)
    ELSE IF ~ParseDurationOk(data.s) THEN HookOut(data, <<"time: invalid duration">>)
    ELSE HookOut(DurationVal(ParseDuration(data.s)), Nil)

StringToIPHookFunc(to, data) ==
    IF data.t # "string" \/ to # "ip" THEN HookOut(data, Nil)
    ELSE IF ~ParseIPOk(data.s) THEN HookOut(data, <<"failed parsing ip">>)
    ELSE HookOut(IPVal(ParseIP(data.s)), Nil)

\* StringToIPNetHookFunc that keeps the address as written
StringToIPNetHookFunc_Unmasked(to, data) ==
    IF data.t # "string" \/ to # "ipnet" THEN HookOut(data, Nil)
    ELSE IF ~ParseCIDROk(data.s) THEN HookOut(data, <<"invalid CIDR address">>)
    ELSE HookOut(IPNetVal(ParseIP(Split(data.s, "/")[1]), DecVal(Split(data.s, "/")[2])), Nil)

StringToIPNetHookFunc(to, data) ==
    IF data.t # "string" \/ to # "ipnet" THEN HookOut(data, Nil)
    ELSE IF ~ParseCIDROk(data.s) THEN HookOut(data, <<"invalid CIDR address">>)
    ELSE HookOut(ParseCIDR(data.s), Nil)

\* the i-th hook of the chain of UnmarshalConfig
Hook(i, to, data) ==
    IF i = 1 THEN MaskedStringDecodeHook(to, data)
    ELSE IF i = 2 THEN StringToTimeDurationHookFunc(to, data)
    ELSE IF i = 3 THEN StringToIPHookFunc(to, data)
    ELSE StringToIPNetHookFunc(to, data)

\* mapstructure.ComposeDecodeHookFunc: each hook gets the data the one before it
\* returned, the first error ends the chain; changed lists the hooks that
\* returned other data than they were given
RECURSIVE ComposeDecodeHookFunc(_, _, _, _)
ComposeDecodeHookFunc(i, to, data, changed) ==
    IF i > 4 THEN [data |-> data, err |-> Nil, changed |-> changed]
    ELSE LET r == Hook(i, to, data)
         IN  IF r.err # Nil THEN [data |-> data, err |-> r.err, changed |-> changed]
             ELSE ComposeDecodeHookFunc(i + 1, to, r.data,
                                        IF r.data # data THEN changed \cup {i} ELSE changed)

\* the decode of the store's string into a field of the kind to: the hook chain,
\* then mapstructure's weakly typed decode of what the chain returned
DecodeField(to, s) ==
    LET h == ComposeDecodeHookFunc(1, to, StringVal(s), {})
    IN  IF h.err # Nil THEN [val |-> NoVal, err |-> h.err, changed |-> h.changed]
        ELSE IF h.data.t = to THEN [val |-> h.data, err |-> Nil, changed |-> h.changed]
        ELSE IF to = "int" /\ WeakIntOk(h.data.s)
             THEN [val |-> IntVal(WeakInt(h.data.s)), err |-> Nil, changed |-> h.changed]
        ELSE [val |-> NoVal, err |-> <<"cannot decode">>, changed |-> h.changed]

FieldKinds == {"string", "int", "duration", "ip", "ipnet"}

DecodeStrings ==
    { <<"6", "0", "s">>, <<"1", ".", "2", ".", "3", ".", "4">>,
      <<"2", ".", "3", ".", "4", ".", "5", "/", "2", "4">>, V_8080,
      <<"t", "e", "s", "t">>, Empty, <<"0">>, <<"9", "0">>, <<"1", "m">>, <<"2", "h">>,
      <<"5", "m", "s">>, <<"7", "d">>, <<"s">>, <<"1", ".", "2", ".", "3">>,
      <<"3", "0", "0", ".", "1", ".", "1", ".", "1">>, <<"1", ".", "2", ".", "3", ".", "0", "4">>,
      <<"1", "0", ".", "9", ".", "8", ".", "7", "/", "8">>,
      <<"1", "0", ".", "9", ".", "8", ".", "7", "/", "2", "0">>,
      <<"1", "0", ".", "9", ".", "8", ".", "7", "/", "3", "2">>,
      <<"1", "0", ".", "9", ".", "8", ".", "7", "/", "0">>,
      <<"2", ".", "3", ".", "4", ".", "5", "/", "3", "3">>,
      <<"2", ".", "3", ".", "4", ".", "5", "/">> }

\* UnmarshalConfig(cfg) for a struct with one field, the store holding a string
\* under its key
UnmarshalFieldCall(p) ==
    /\ inv[p].pc = "idle"
    /\ \E to \in FieldKinds, s \in DecodeStrings :
          inv' = [inv EXCEPT ![p] = [pc |-> "decoded", to |-> to, s |-> s, r |-> DecodeField(to, s)]]
    /\ UNCHANGED <<fs, env, homeOK, v, watches, logger, exited>>

NextDecode == UnmarshalFieldCall(1)

SpecDecode == InitCall /\ [][NextDecode]_vars

\* C22: 60s decodes into a duration field as 60 seconds, 1.2.3.4 into an IP field
\* as that address, 2.3.4.5/24 into a network field as 2.3.4.0 with prefix length
\* 24 and 8080 into an int field as 8080; whenever a decode succeeds, the hook of
\* the field's type and no other has changed the value (none for an int or a
\* string field).
C22_HookChain ==
    \A p \in Procs :
        inv[p].pc = "decoded" =>
            LET c == inv[p]
            IN  /\ (c.to = "duration" /\ c.s = <<"6", "0", "s">>)
                      => (c.r.err = Nil /\ c.r.val.t = "duration" /\ c.r.val.n = 60 * 1000)
                /\ (c.to = "ip" /\ c.s = <<"1", ".", "2", ".", "3", ".", "4">>)
                      => (c.r.err = Nil /\ c.r.val.t = "ip" /\ c.r.val.o = <<1, 2, 3, 4>>)
                /\ (c.to = "ipnet" /\ c.s = <<"2", ".", "3", ".", "4", ".", "5", "/", "2", "4">>)
                      => (c.r.err = Nil /\ c.r.val.t = "ipnet" /\ c.r.val.o = <<2, 3, 4, 0>>
                          /\ c.r.val.bits = 24)
                /\ (c.to = "int" /\ c.s = V_8080)
                      => (c.r.err = Nil /\ c.r.val.t = "int" /\ c.r.val.n = 8080)
                /\ c.r.err = Nil =>
                      c.r.changed = IF c.to = "duration" THEN {2}
                                    ELSE IF c.to = "ip" THEN {3}
                                    ELSE IF c.to = "ipnet" THEN {4}
                                    ELSE {}

C22_Witness ==
    \E p \in Procs :
        /\ inv[p].pc = "decoded" /\ inv[p].to = "ipnet"
        /\ inv[p].s = <<"2", ".", "3", ".", "4", ".", "5", "/", "2", "4">>
        /\ inv[p].r.err = Nil /\ inv[p].r.changed = {4} /\ inv[p].r.val.o = <<2, 3, 4, 0>>

(***************************************************************************)
(* What a decode leaves alone                                              *)
(***************************************************************************)
\* InitConfig has returned a nil error and no layer defines port: no config file
\* was read that holds it, APP_PORT is not set, no port flag was set by the user
C23_PortUndefined(p) ==
    /\ IsInitConfig(p) /\ HasReturned(p) /\ inv[p].err = Nil
    /\ FileLayerPort(p) = None /\ EnvLayerPort = None /\ FlagLayerPort(p) = None

\* C23 as stated: a field whose key no layer defines holds after InitConfig the
\* value it held before, and the handler is passed that value.
C23_UndefinedKept ==
    \A p \in Procs :
        C23_PortUndefined(p) =>
            /\ inv[p].cfg.Port = inv[p].cfg0.Port
            /\ (inv[p].handlerCalls = 1 => inv[p].handlerCfg = inv[p].cfg0)

\* C23: the same for a field that has no flag bound or a flag whose default is the
\* value the field held before the call, as the flags NewCommand generates from the
\* struct are.
C23_UndefinedKeptUnderOwnDefault ==
    \A p \in Procs :
        (/\ C23_PortUndefined(p)
         /\ (inv[p].flags[K_port].defined => WeakInt(inv[p].flags[K_port].def) = inv[p].cfg0.Port))
        => /\ inv[p].cfg.Port = inv[p].cfg0.Port
           /\ (inv[p].handlerCalls = 1 => inv[p].handlerCfg = inv[p].cfg0)

C23_Witness ==
    \E p \in Procs :
        /\ C23_PortUndefined(p) /\ inv[p].kind = "CobraRunEWithConfig"
        /\ inv[p].flags[K_port] = MkFlag(V_8080, V_8080, FALSE)
        /\ IsConfigFileNotFound(inv[p].readErr)
        /\ inv[p].handlerCalls = 1 /\ inv[p].handlerCfg = DefaultCfg

(***************************************************************************)
(* Logging on its own: ConfigureLogLevel, WithDefaultLogLevel and          *)
(* ConfigureCmdLogger with options                                         *)
(***************************************************************************)
MaxLogOpts == 2

InfoLevel == 1

V_nope == <<"n", "o", "p", "e">>
V_42 == <<"4", "2">>

\* strconv.Itoa for the levels of the model
Itoa(n) == IF n < 10 THEN <<Digits[n + 1]>> ELSE <<Digits[(n \div 10) + 1], Digits[(n % 10) + 1]>>

\* zerolog's Level.String(): the name of a named level, the number of any other
LevelString(level) ==
    IF level = 0 - 1 THEN TraceName
    ELSE IF level \in 0..7 THEN LevelNames[level + 1]
    ELSE Itoa(level)

\* the option WithDefaultLogLevel(level), applied to the Config c
WithDefaultLogLevel(c, level) ==
    IF c.Level = Empty THEN [c EXCEPT !.Level = LevelString(level)]
    ELSE IF ~ParseLevelOk(c.Level) THEN [c EXCEPT !.Level = LevelString(level)]
    ELSE c

\* for _, o := range opts { o(&c) }, every option a WithDefaultLogLevel
RECURSIVE ApplyLogOpts(_, _)
ApplyLogOpts(c, opts) ==
    IF opts = << >> THEN c ELSE ApplyLogOpts(WithDefaultLogLevel(c, Head(opts)), Tail(opts))

\* ConfigureCmdLogger(c, opts...)
ConfigureCmdLoggerOpts(lg, c, opts) == ConfigureCmdLogger(lg, ApplyLogOpts(c, opts))

LevelStrings ==
    {Empty, V_debug, V_info, V_warn, <<"E", "r", "r", "o", "r">>, TraceName, V_nope, V_x, V_42,
     <<"2", "0", "0">>, <<"d", "i", "s", "a", "b", "l", "e", "d">>}
DefaultLevels == {0, InfoLevel, WarnLevel, 3}
LogConfigs == {[Level |-> l, MaxSize |-> m] : l \in LevelStrings, m \in {0, 7}}

\* a call of ConfigureLogLevel(levelString, defaultLogLevel)
ConfigureLogLevelCall(p) ==
    /\ inv[p].pc = "idle"
    /\ \E levelString \in LevelStrings, defaultLogLevel \in DefaultLevels :
          /\ logger' = [level |-> ConfigureLogLevel(levelString, defaultLogLevel), calls |-> logger.calls + 1]
          /\ inv' = [inv EXCEPT ![p] = [pc |-> "levelled", levelString |-> levelString,
                                        defaultLogLevel |-> defaultLogLevel]]
    /\ UNCHANGED <<fs, env, homeOK, v, watches, exited>>

\* opt := WithDefaultLogLevel(level); opt(&c); opt(&c)
WithDefaultLogLevelCall(p) ==
    /\ inv[p].pc = "idle"
    /\ \E c \in LogConfigs, level \in DefaultLevels :
          inv' = [inv EXCEPT ![p] = [pc |-> "opted", c0 |-> c, level |-> level,
                                     c1 |-> WithDefaultLogLevel(c, level),
                                     c2 |-> WithDefaultLogLevel(WithDefaultLogLevel(c, level), level)]]
    /\ UNCHANGED <<fs, env, homeOK, v, watches, logger, exited>>

\* a call of ConfigureCmdLogger(c, opts...)
ConfigureCmdLoggerCall(p) ==
    /\ inv[p].pc = "idle"
    /\ \E c \in LogConfigs, n \in 0..MaxLogOpts : \E opts \in [1..n -> DefaultLevels] :
          /\ logger' = ConfigureCmdLoggerOpts(logger, c, opts)
          /\ inv' = [inv EXCEPT ![p] = [pc |-> "configured", c0 |-> c, opts |-> opts]]
    /\ UNCHANGED <<fs, env, homeOK, v, watches, exited>>

NextLog == ConfigureLogLevelCall(1) \/ WithDefaultLogLevelCall(1) \/ ConfigureCmdLoggerCall(1)

SpecLog == InitCall /\ [][NextLog]_vars

\* the level names: trace, debug, info, warn, error, fatal, panic
C24_IsLevelName(s) ==
    ToLower(s) = TraceName \/ \E i \in 1..6 : ToLower(s) = LevelNames[i]
C24_LevelNamed(s) ==
    IF ToLower(s) = TraceName THEN 0 - 1 ELSE (CHOOSE i \in 1..6 : ToLower(s) = LevelNames[i]) - 1

\* C24: ConfigureLogLevel sets the global level to the level the string names when
\* it is a level name and to the default when it is empty or anything else; so
\* ConfigureCmdLogger without options gives warn for an empty and for an invalid
\* Level, and with WithDefaultLogLevel(info) gives info for both.
C24_LevelOrDefault ==
    \A p \in Procs :
        /\ inv[p].pc = "levelled"
              => logger.level = IF C24_IsLevelName(inv[p].levelString)
                                THEN C24_LevelNamed(inv[p].levelString)
                                ELSE inv[p].defaultLogLevel
        /\ (inv[p].pc = "configured" /\ ~C24_IsLevelName(inv[p].c0.Level))
              => logger.level = IF inv[p].opts = << >> THEN WarnLevel ELSE inv[p].opts[1]

\* C25: WithDefaultLogLevel(d) replaces Level by the name of d exactly when Level is
\* empty or no level name, changes no other field, and applied twice gives what it
\* gives applied once.
C25_DefaultOnlyWhenUnset ==
    \A p \in Procs :
        inv[p].pc = "opted" =>
            /\ inv[p].c1.Level = IF C24_IsLevelName(inv[p].c0.Level) THEN inv[p].c0.Level
                                 ELSE LevelString(inv[p].level)
            /\ inv[p].c1.MaxSize = inv[p].c0.MaxSize
            /\ inv[p].c2 = inv[p].c1

(***************************************************************************)
(* The background watch of viper.WatchConfig(): one InitConfig invocation, *)
(* a config file that is modified after the watch has started, and the     *)
(* notifications the watch goroutine handles                               *)
(***************************************************************************)
InitConfigSteps(p) ==
    \/ InitConfig_Validate(p)
    \/ InitConfig_SetEnv(p)
    \/ InitConfig_BindPFlags(p)
    \/ InitConfig_Files(p)
    \/ InitConfig_Read(p)
    \/ InitConfig_UnmarshalCommon(p)
    \/ InitConfig_ConfigureLogger(p)
    \/ InitConfig_UnmarshalConfig(p)
    \/ CheckErr(p)
    \/ ExecFunc(p)

\* what a watched file is rewritten to
Rewrites == {File(Data(V_9, V_warn, V_7)), Malformed}

\* another process rewrites a watched config file
FileChange ==
    /\ ~exited
    /\ \E w \in watches, new \in Rewrites :
          /\ w \in DOMAIN fs
          /\ fs[w] # new
          /\ fs' = [fs EXCEPT ![w] = new]
    /\ UNCHANGED <<env, homeOK, v, watches, logger, exited, inv>>

\* WatchNotify that also decodes the store into the structs of the invocation
WatchNotify_Redecode ==
    /\ ~exited
    /\ watches # {}
    /\ v' = ReadInConfig(v, fs).s
    /\ inv' = [p \in Procs |->
                 IF HasReturned(p)
                 THEN [inv[p] EXCEPT !.cfg = UnmarshalConfig(ReadInConfig(v, fs).s, env, inv[p].cfg).val]
                 ELSE inv[p]]
    /\ UNCHANGED <<fs, env, homeOK, watches, logger, exited>>

\* the watch goroutine on a write or create event of the config file: it calls
\* v.ReadInConfig(), logs its error, and calls the OnConfigChange callback, which this
\* code never sets
WatchNotify ==
    /\ ~exited
    /\ watches # {}
    /\ v' = ReadInConfig(v, fs).s
    /\ UNCHANGED <<fs, env, homeOK, watches, logger, exited, inv>>

NextWatch ==
    \/ CobraRunEWithConfig(1)
    \/ CobraRunE(1)
    \/ InitConfigSteps(1)
    \/ FileChange
    \/ WatchNotify

SpecWatch == Init /\ [][NextWatch]_vars

\* C26 (state part): a watch exists only in an InitConfig invocation whose
\* config-file read returned no error, and it is the watch of the file that was read.
C26_WatchOnlyAfterGoodRead ==
    watches # {} =>
        /\ IsInitConfig(1)
        /\ inv[1].readErr = Nil
        /\ InTrace(1, "read+watch")
        /\ watches = {v.configFile}

\* C26 (step part): the watch is started by the read step of InitConfig and by no
\* other step; once InitConfig has returned, no step changes the CommonConfig or the
\* caller's struct it decoded, and the handler is called by the run function only,
\* once, never by a notification.
C26_StepKeepsDecoded ==
    /\ (watches' # watches => inv[1].pc = "read" /\ inv'[1].readErr = Nil)
    /\ (HasReturned(1) => inv'[1].c = inv[1].c /\ inv'[1].cfg = inv[1].cfg)
    /\ (inv'[1].handlerCalls # inv[1].handlerCalls =>
            inv[1].pc = "exec" /\ inv[1].handlerCalls = 0 /\ v' = v)
    /\ (v' # v /\ HasReturned(1) => inv' = inv /\ logger' = logger)

\* C26: the background config-file watch is started only in an InitConfig invocation
\* whose config-file read succeeded, never after a not-found or otherwise failed
\* read; once InitConfig has returned, a file-change notification may refresh the
\* values held in the store but never changes the CommonConfig or the caller's struct
\* that were already decoded and never re-invokes the handler.
C26_WatchRefreshesStoreOnly ==
    [](C26_WatchOnlyAfterGoodRead) /\ [][C26_StepKeepsDecoded]_vars

\* the watched file was rewritten after the handler ran on port 80 read from it, a
\* notification has put the new port 9 into the store, and the decoded struct and
\* the struct the handler was given still hold 80
C26_Witness ==
    /\ inv[1].pc = "done"
    /\ inv[1].handlerCalls = 1
    /\ watches # {}
    /\ v.config = Data(V_9, V_warn, V_7)
    /\ UnmarshalConfig(v, env, DefaultCfg).val = [Port |-> 9]
    /\ inv[1].cfg = [Port |-> 80]
    /\ inv[1].handlerCfg = [Port |-> 80]
    /\ inv[1].c.Level = V_debug

(***************************************************************************)
(* Two InitConfig invocations of one process running concurrently on the   *)
(* package-level store.  The interleaving is at the granularity of the     *)
(* statements of InitConfig; the store has no mutex, so the Go memory      *)
(* model allows at least these interleavings.                              *)
(***************************************************************************)
\* what InitConfig decodes from the sources of invocation i alone, on a store as
\* Viper creates it
InitConfigAlone(i) ==
    LET s1 == SetEnvKeyReplacer(SetEnvPrefix(ViperNew, i.appName), <<<<"-", "_">>, <<".", "_">>>>)
        s2 == BindPFlags(s1, i.flags)
        s3 == RegisterFiles(s2, i.orgName, i.appName, i.cmd, i.cfgFile, homeOK)
        r == ReadInConfig(s3, fs)
        c == UnmarshalCommon(r.s, env, ZeroCommonConfig)
        cfg == UnmarshalConfig(r.s, env, i.cfg0)
    IN  [c |-> c.val, cfg |-> cfg.val, readErr |-> r.err,
         err |-> IF c.err # Nil THEN c.err ELSE cfg.err]

S_web == <<"w", "e", "b">>

\* two applications of one organisation
CallContexts ==
    { Context(Empty, <<SetOrgName(S_o), SetAppName(S_app)>>),
      Context(Empty, <<SetOrgName(S_o), SetAppName(S_web)>>) }

\* a command line without flags set, and one with --port 9 --config c.yaml
CallFlagSets ==
    { [k \in FlagKeys |-> IF k = K_port THEN MkFlag(V_8080, V_8080, FALSE) ELSE NoFlag],
      [k \in FlagKeys |-> IF k = K_port THEN MkFlag(V_8080, V_9, TRUE) ELSE MkFlag(Empty, S_cyaml, TRUE)] }

InitCalls ==
    /\ fs \in { FsWith({<<P_explicit, File(Data(V_80, V_debug, None))>>}),
                FsWith({<<P_app, File(Data(V_81, None, None))>>,
                        <<P_explicit, File(Data(V_80, V_debug, None))>>}) }
    /\ env \in EnvInit
    /\ homeOK = TRUE
    /\ v = ViperNew
    /\ watches = {}
    /\ logger = ZeroLogger
    /\ exited = FALSE
    /\ inv = [p \in Procs |-> IdleInv]

\* InitConfig(orgName, appName, cmd, cfgFile, cfg) called by invocation p
InitConfigCall(p) ==
    /\ inv[p].pc = "idle"
    /\ \E ctx \in CallContexts, flags \in CallFlagSets :
          inv' = [inv EXCEPT ![p] = [IdleInv EXCEPT
                    !.pc = "validate", !.kind = "InitConfig", !.ctx = ctx, !.cmd = RootCmd,
                    !.flags = flags,
                    !.orgName = OrgNameFromContext(ctx), !.appName = AppNameFromContext(ctx),
                    !.cfgFile = IF flags[K_config].defined THEN flags[K_config].val ELSE Empty,
                    !.cfg = DefaultCfg, !.cfg0 = DefaultCfg, !.pre = Snapshot]]
    /\ UNCHANGED <<fs, env, homeOK, v, watches, logger, exited>>

InitConfigBody(p) ==
    \/ InitConfig_Validate(p)
    \/ InitConfig_SetEnv(p)
    \/ InitConfig_BindPFlags(p)
    \/ InitConfig_Files(p)
    \/ InitConfig_Read(p)
    \/ InitConfig_UnmarshalCommon(p)
    \/ InitConfig_ConfigureLogger(p)
    \/ InitConfig_UnmarshalConfig(p)

NextConcurrent == \E p \in Procs : InitConfigCall(p) \/ InitConfigBody(p)

SpecConcurrent == InitCalls /\ [][NextConcurrent]_vars

\* C27: two InitConfig invocations running concurrently in one process operate on
\* the same process-wide store without any locking: a statement of InitConfig that
\* writes the store or the global logger is never held back by the other
\* invocation, wherever that one is.  (C27_Witness is the interleaving the claim
\* says is reachable.)
C27_NoLocking ==
    \A p \in Procs :
        /\ inv[p].pc = "setenv" => ENABLED InitConfig_SetEnv(p)
        /\ inv[p].pc = "bind" => ENABLED InitConfig_BindPFlags(p)
        /\ inv[p].pc = "files" => ENABLED InitConfig_Files(p)
        /\ inv[p].pc = "read" => ENABLED InitConfig_Read(p)
        /\ inv[p].pc = "logger" => ENABLED InitConfig_ConfigureLogger(p)

\* both invocations have returned without error; invocation 1 decoded its struct and
\* its CommonConfig not as its own sources give them but as those of invocation 2
\* do (its environment prefix, its --config file, its --port flag), and the global
\* logger has the level of the logging settings of invocation 2
C27_Witness ==
    /\ \A p \in Procs : inv[p].pc = "returned" /\ inv[p].err = Nil
    /\ inv[1].appName = S_app /\ inv[2].appName = S_web
    /\ inv[1].cfgFile = Empty /\ inv[2].cfgFile = S_cyaml
    /\ ~inv[1].flags[K_port].changed /\ inv[2].flags[K_port].changed
    /\ inv[1].cfg # InitConfigAlone(inv[1]).cfg
    /\ inv[1].cfg = InitConfigAlone(inv[2]).cfg
    /\ inv[1].c # InitConfigAlone(inv[1]).c
    /\ inv[1].c = InitConfigAlone(inv[2]).c
    /\ logger.level = ConfigureLogLevel(InitConfigAlone(inv[2]).c.Level, DefaultLogLevel)
    /\ logger.level # ConfigureLogLevel(InitConfigAlone(inv[1]).c.Level, DefaultLogLevel)
    /\ LastStep(1) = "decode"
    /\ inv[2].trace \o <<"returned">> = <<"validate", "setenv", "bind", "files", "read+watch", "common", "logger", "decode", "returned">>

(***************************************************************************)
(* C28: when InitConfig configures logging                                 *)
(***************************************************************************)
\* position of a step in the trace of invocation p, 0 if it did not run
StepAt(p, step) ==
    IF InTrace(p, step) THEN CHOOSE i \in 1..Len(inv[p].trace) : inv[p].trace[i] = step ELSE 0

\* C28: in every execution of InitConfig the logging subsystem is configured at most
\* once, strictly after the CommonConfig unmarshal has succeeded and strictly before
\* the caller's struct is decoded, from a CommonConfig created fresh in that call:
\* the logger is therefore configured also when the caller-struct decode
\* subsequently fails, and is not configured in any execution that fails at
\* validation, flag binding or the CommonConfig unmarshal.
C28_LoggerOnceBetweenDecodes ==
    IsInitConfig(1) =>
        /\ logger.calls <= 1
        /\ logger.calls = 1 <=> InTrace(1, "logger")
        /\ InTrace(1, "logger") =>
              /\ StepAt(1, "common") = StepAt(1, "logger") - 1
              /\ UnmarshalCommon(v, env, ZeroCommonConfig).err = Nil
              /\ inv[1].c = UnmarshalCommon(v, env, ZeroCommonConfig).val
              /\ logger.level = ConfigureLogLevel(inv[1].c.Level, DefaultLogLevel)
        /\ InTrace(1, "decode") => StepAt(1, "logger") = StepAt(1, "decode") - 1
        /\ (HasReturned(1) /\ LastStepOfInit(1) = "decode") => logger.calls = 1
        /\ (HasReturned(1) /\ LastStepOfInit(1) \in {"validate", "bind", "common"}) =>
              /\ inv[1].err # Nil
              /\ logger = ZeroLogger

\* InitConfig has returned the error of the caller-struct decode (--port x), and the
\* logger was configured before it, at the level debug of the config file
C28_Witness ==
    /\ IsInitConfig(1)
    /\ inv[1].pc = "returned"
    /\ LastStepOfInit(1) = "decode"
    /\ inv[1].err # Nil
    /\ inv[1].c.Level = V_debug
    /\ logger = [level |-> 0, calls |-> 1]

(***************************************************************************)
(* C29: the errors of InitViperConfigWithFlagSet                           *)
(***************************************************************************)
IsInitViper(p) == inv[p].kind = "InitViperConfigWithFlagSet"

\* the config file read ended in file-not-found: no file at the searched locations,
\* or no file under the explicit name
C29_FileNotFound(p) ==
    \/ IsConfigFileNotFound(inv[p].readErr)
    \/ inv[p].readErr = <<"PathError: no such file or directory">>

\* C29: InitViperConfigWithFlagSet returns a non-nil error exactly when flag binding
\* fails, when the config-file read fails with an error other than file-not-found,
\* or when unmarshalling into cfg fails; a file-not-found read returns nil and still
\* unmarshals flags and environment into cfg; cfg is decoded only if no earlier step
\* failed; and the function never validates org/app names, never starts a file
\* watch and never configures logging.
C29_ErrorExactlyWhen ==
    \A p \in Procs :
        IsInitViper(p) =>
            /\ ~InTrace(p, "validate") /\ ~InTrace(p, "logger") /\ ~InTrace(p, "read+watch")
            /\ watches = {} /\ logger = ZeroLogger
            /\ InTrace(p, "decode") => (InTrace(p, "bind") /\ InTrace(p, "read"))
            /\ HasReturned(p) =>
                  /\ inv[p].err # Nil <=>
                        \/ (LastStepOfInit(p) = "bind" /\ BindPFlagsErr(inv[p].flags) # Nil)
                        \/ (inv[p].readErr # Nil /\ ~C29_FileNotFound(p))
                        \/ (InTrace(p, "decode") /\ UnmarshalConfig(v, env, inv[p].cfg0).err # Nil)
                  /\ inv[p].cfg # inv[p].cfg0 => (InTrace(p, "decode") /\ inv[p].err = Nil)
                  /\ C29_FileNotFound(p) =>
                        /\ InTrace(p, "decode")
                        /\ inv[p].err = UnmarshalConfig(v, env, inv[p].cfg0).err
                        /\ (inv[p].err = Nil /\ inv[p].flags[K_port].changed)
                              => inv[p].cfg.Port = WeakInt(inv[p].flags[K_port].val)
                        /\ (inv[p].err = Nil /\ ~inv[p].flags[K_port].changed /\ env[E_PORT] # Empty)
                              => inv[p].cfg.Port = WeakInt(env[E_PORT])

(***************************************************************************)
(* InitConfig invocations of one process run one after the other on the    *)
(* package-level store                                                     *)
(***************************************************************************)
\* invocation p starts once every earlier invocation has returned
SequentialCall(p) ==
    /\ \A q \in Procs : q < p => inv[q].pc = "returned"
    /\ InitConfigCall(p)

NextSequential == \E p \in Procs : SequentialCall(p) \/ InitConfigBody(p)

SpecSequential == InitCalls /\ [][NextSequential]_vars

\* C30: across any sequence of InitConfig invocations in one process, the values an
\* invocation decodes depend only on the sources of that invocation: flag bindings,
\* config search paths, config-file contents and the environment prefix registered
\* by an earlier invocation never change the result of a later invocation.
C30_OwnSourcesOnly ==
    \A p \in Procs :
        inv[p].pc = "returned" =>
            /\ inv[p].cfg = InitConfigAlone(inv[p]).cfg
            /\ inv[p].c = InitConfigAlone(inv[p]).c
            /\ inv[p].err = InitConfigAlone(inv[p]).err

====
